---- MODULE Spec2Model ----
(***************************************************************************)
(* NoSQL-Generate: the NoSQL code-generation pipeline.                     *)
(*                                                                         *)
(* Text is modelled as a sequence of tokens.  Everything that is derived   *)
(* from the document (keys, string values, numbers, names computed from    *)
(* keys) is spelled character by character, one token per character; the   *)
(* fixed parts of the templates are kept as literal tokens, with every     *)
(* bracket that opens or closes a block of the generated code as a token   *)
(* of its own.                                                             *)
(***************************************************************************)
EXTENDS Integers, Sequences, FiniteSets, TLC

(***************************************************************************)
(* Strings and the String.prototype methods the generators use.            *)
(***************************************************************************)
UpperAlpha == <<"A","B","C","D","E","F","G","H","I","J","K","L","M",
                "N","O","P","Q","R","S","T","U","V","W","X","Y","Z">>

LowerAlpha == <<"a","b","c","d","e","f","g","h","i","j","k","l","m",
                "n","o","p","q","r","s","t","u","v","w","x","y","z">>

Digits == {"0","1","2","3","4","5","6","7","8","9"}

LowerChar(ch) ==
    IF \E j \in 1..Len(UpperAlpha) : UpperAlpha[j] = ch
    THEN LowerAlpha[CHOOSE j \in 1..Len(UpperAlpha) : UpperAlpha[j] = ch]
    ELSE ch

UpperChar(ch) ==
    IF \E j \in 1..Len(LowerAlpha) : LowerAlpha[j] = ch
    THEN UpperAlpha[CHOOSE j \in 1..Len(LowerAlpha) : LowerAlpha[j] = ch]
    ELSE ch

toLowerCase(s) == [i \in 1..Len(s) |-> LowerChar(s[i])]

\* s.includes(sub); also used to search the generated text for a passage
includes(s, sub) ==
    \E i \in 1..(Len(s) - Len(sub) + 1) : SubSeq(s, i, i + Len(sub) - 1) = sub

endsWith(s, sub) ==
    /\ Len(s) >= Len(sub)
    /\ SubSeq(s, Len(s) - Len(sub) + 1, Len(s)) = sub

\* key.charAt(0).toUpperCase() + key.slice(1)
capitalize(s) == IF Len(s) = 0 THEN s ELSE <<UpperChar(s[1])>> \o Tail(s)

\* s.slice(0, -1)
dropLast(s) == IF Len(s) = 0 THEN s ELSE SubSeq(s, 1, Len(s) - 1)

\* /^\d{4}-\d{2}-\d{2}/.test(s)
datePattern(s) ==
    /\ Len(s) >= 10
    /\ \A i \in {1, 2, 3, 4, 6, 7, 9, 10} : s[i] \in Digits
    /\ s[5] = "-"
    /\ s[8] = "-"

\* String(n) for a non-negative integer
RECURSIVE NumChars(_)
NumChars(n) ==
    IF n < 10 THEN <<ToString(n)>>
    ELSE NumChars(n \div 10) \o <<ToString(n % 10)>>

\* value.replace(/"/g, '\\"')
RECURSIVE escapeQuotes(_)
escapeQuotes(s) ==
    IF Len(s) = 0 THEN <<>>
    ELSE (IF Head(s) = "\"" THEN <<"\\", "\"">> ELSE <<Head(s)>>)
         \o escapeQuotes(Tail(s))

(***************************************************************************)
(* JSON values.  A value is a record [t, n, s, c]: t its type, n the       *)
(* number (or 0/1 for a boolean, the instant for a Date), s the characters *)
(* of a string, c the entries [k, v] of an object in insertion order, or   *)
(* of an array with its indices as keys.                                   *)
(***************************************************************************)
Null == [t |-> "null", n |-> 0, s |-> <<>>, c |-> <<>>]

Undefined == [t |-> "undefined", n |-> 0, s |-> <<>>, c |-> <<>>]

Num(x) == [t |-> "num", n |-> x, s |-> <<>>, c |-> <<>>]

Bool(b) == [t |-> "bool", n |-> IF b THEN 1 ELSE 0, s |-> <<>>, c |-> <<>>]

Str(chars) == [t |-> "str", n |-> 0, s |-> chars, c |-> <<>>]

DateVal(x) == [t |-> "date", n |-> x, s |-> <<>>, c |-> <<>>]

Entry(key, value) == [k |-> key, v |-> value]

Obj(entries) == [t |-> "obj", n |-> 0, s |-> <<>>, c |-> entries]

Arr(items) ==
    [t |-> "arr", n |-> 0, s |-> <<>>,
     c |-> [i \in 1..Len(items) |-> Entry(NumChars(i - 1), items[i])]]

\* the elements of an array value
Elems(a) == [i \in 1..Len(a.c) |-> a.c[i].v]

isArray(v) == v.t = "arr"

\* typeof value === 'object' && value !== null
isObjectLike(v) == v.t \in {"obj", "arr", "date"}

\* typeof value === 'object' && value !== null && !Array.isArray(value)
isPlainObject(v) == v.t \in {"obj", "date"}

\* Object.entries(v) / Object.keys(v) throw a TypeError on null and undefined
entriesThrow(v) == v.t \in {"null", "undefined"}

\* Object.entries(v): own enumerable properties; the characters of a string
\* under their indices; nothing for a number, a boolean or a Date
entries(v) ==
    CASE v.t \in {"obj", "arr"} -> v.c
      [] v.t = "str" -> [i \in 1..Len(v.s) |-> Entry(NumChars(i - 1), Str(<<v.s[i]>>))]
      [] OTHER -> <<>>

keys(v) == [i \in 1..Len(entries(v)) |-> entries(v)[i].k]

\* value is a non-empty plain object: the test of the References emitters
isNonEmptyObject(v) == isPlainObject(v) /\ Len(keys(v)) > 0

\* Array.isArray(value) && value.length > 0 && typeof value[0] === 'object' && value[0] !== null
isArrayOfObjects(v) == isArray(v) /\ Len(v.c) > 0 /\ isObjectLike(v.c[1].v)

\* new Date(x).toISOString(), the instant x spelled as one token
toISOString(x) == <<ToString(<<"iso", x>>)>>

\* a join that keeps the first part only
joinFirst(parts, sep) == IF Len(parts) = 0 THEN <<>> ELSE parts[1]

\* parts.join(sep)
RECURSIVE join(_, _)
join(parts, sep) ==
    IF Len(parts) = 0 THEN <<>>
    ELSE IF Len(parts) = 1 THEN parts[1]
    ELSE parts[1] \o sep \o join(Tail(parts), sep)

(***************************************************************************)
(* The value serializers, one per backend.                                 *)
(***************************************************************************)
\* mongoValueToString: the MongoDB shell literal of a value
RECURSIVE mongoValueToString(_)
mongoValueToString(value) ==
    CASE value.t = "null" -> <<"null">>
      [] value.t = "str" -> <<"\"">> \o escapeQuotes(value.s) \o <<"\"">>
      [] value.t = "num" -> NumChars(value.n)
      [] value.t = "bool" -> IF value.n = 1 THEN <<"t","r","u","e">> ELSE <<"f","a","l","s","e">>
      [] value.t = "date" -> <<"ISODate", "(", "\"">> \o toISOString(value.n) \o <<"\"", ")">>
      [] value.t = "arr" ->
            <<"[">> \o join([i \in 1..Len(value.c) |-> mongoValueToString(value.c[i].v)], <<", ">>) \o <<"]">>
      [] value.t = "obj" ->
            <<"{", " ">>
            \o join([i \in 1..Len(value.c) |->
                        value.c[i].k \o <<": ">> \o mongoValueToString(value.c[i].v)], <<", ">>)
            \o <<" ", "}">>
      [] OTHER -> <<"undefined">>

\* firebaseValueToString: the Firestore literal of a value
RECURSIVE firebaseValueToString(_)
firebaseValueToString(value) ==
    CASE value.t = "null" -> <<"null">>
      [] value.t = "str" -> <<"\"">> \o escapeQuotes(value.s) \o <<"\"">>
      [] value.t = "num" -> NumChars(value.n)
      [] value.t = "bool" -> IF value.n = 1 THEN <<"t","r","u","e">> ELSE <<"f","a","l","s","e">>
      [] value.t = "date" -> <<"new Date", "(", "\"">> \o toISOString(value.n) \o <<"\"", ")">>
      [] value.t = "arr" ->
            <<"[">> \o join([i \in 1..Len(value.c) |-> firebaseValueToString(value.c[i].v)], <<", ">>) \o <<"]">>
      [] value.t = "obj" ->
            <<"{", " ">>
            \o join([i \in 1..Len(value.c) |->
                        value.c[i].k \o <<": ">> \o firebaseValueToString(value.c[i].v)], <<", ">>)
            \o <<" ", "}">>
      [] OTHER -> <<"undefined">>

\* dynamoValueToString: the DynamoDB literal of a value
RECURSIVE dynamoValueToString(_)
dynamoValueToString(value) ==
    CASE value.t = "null" -> <<"null">>
      [] value.t = "str" -> <<"\"">> \o escapeQuotes(value.s) \o <<"\"">>
      [] value.t = "num" -> NumChars(value.n)
      [] value.t = "bool" -> IF value.n = 1 THEN <<"t","r","u","e">> ELSE <<"f","a","l","s","e">>
      [] value.t = "date" -> <<"\"">> \o toISOString(value.n) \o <<"\"">>
      [] value.t = "arr" ->
            <<"[">> \o join([i \in 1..Len(value.c) |-> dynamoValueToString(value.c[i].v)], <<", ">>) \o <<"]">>
      [] value.t = "obj" ->
            <<"{", " ">>
            \o join([i \in 1..Len(value.c) |->
                        value.c[i].k \o <<": ">> \o dynamoValueToString(value.c[i].v)], <<", ">>)
            \o <<" ", "}">>
      [] OTHER -> <<"undefined">>

\* couchValueToString: the CouchDB literal of a value
RECURSIVE couchValueToString(_)
couchValueToString(value) ==
    CASE value.t = "null" -> <<"null">>
      [] value.t = "str" -> <<"\"">> \o escapeQuotes(value.s) \o <<"\"">>
      [] value.t = "num" -> NumChars(value.n)
      [] value.t = "bool" -> IF value.n = 1 THEN <<"t","r","u","e">> ELSE <<"f","a","l","s","e">>
      [] value.t = "date" -> <<"\"">> \o toISOString(value.n) \o <<"\"">>
      [] value.t = "arr" ->
            <<"[">> \o join([i \in 1..Len(value.c) |-> couchValueToString(value.c[i].v)], <<", ">>) \o <<"]">>
      [] value.t = "obj" ->
            <<"{", " ">>
            \o join([i \in 1..Len(value.c) |->
                        value.c[i].k \o <<": ">> \o couchValueToString(value.c[i].v)], <<", ">>)
            \o <<" ", "}">>
      [] OTHER -> <<"undefined">>


(***************************************************************************)
(* Ordered maps (JavaScript objects used as maps): a sequence of entries   *)
(* [k, v] in insertion order.  Keys are assumed not to look like array     *)
(* indices, which JavaScript would order first.                            *)
(***************************************************************************)
has(m, key) == \E i \in 1..Len(m) : m[i].k = key

get(m, key) == m[CHOOSE i \in 1..Len(m) : m[i].k = key].v

\* m[key] = value: an existing key keeps its place
put(m, key, value) ==
    IF has(m, key)
    THEN [i \in 1..Len(m) |-> IF m[i].k = key THEN Entry(key, value) ELSE m[i]]
    ELSE Append(m, Entry(key, value))

\* if (!m[key]) m[key] = []; m[key].push(...values)
pushAll(m, key, values) ==
    IF has(m, key) THEN put(m, key, get(m, key) \o values) ELSE put(m, key, values)

\* Object.assign(target, source)
RECURSIVE assign(_, _)
assign(target, source) ==
    IF Len(source) = 0 THEN target
    ELSE assign(put(target, Head(source).k, Head(source).v), Tail(source))

concat(parts) == join(parts, <<>>)

(***************************************************************************)
(* Placeholders of the generated text, resolved when a call returns:       *)
(* NewId / NewOid stand for a call of generateId(true) / generateId(),     *)
(* SameId for a second use of the value just drawn; NewNow for a reading   *)
(* of the clock (new Date().toISOString()), SameNow for a second use of    *)
(* the instant just read.  TypeError marks the point where                 *)
(* Object.entries / Object.keys is applied to null or undefined.           *)
(***************************************************************************)
NewId == "<generateId(true)>"

NewOid == "<generateId()>"

SameId == "<id>"

NewNow == "<new Date()>"

SameNow == "<now>"

TypeError == "<TypeError>"

comma(more) == IF more THEN <<",">> ELSE <<>>

\* the names the emitters fall back to
ItemsName == <<"i","t","e","m","s">>

CollectionName == <<"c","o","l","l","e","c","t","i","o","n">>

DefaultDbName == <<"nosql_generator_db">>

\* s is falsy for the empty string (an absent option is modelled as "")
truthy(s) == Len(s) > 0

(***************************************************************************)
(* MongoDB generator (nosql/mongodbGenerator.js)                           *)
(***************************************************************************)
mongoTimestamps ==
    <<"    createdAt: ISODate", "(", "\"", NewNow, "\"", ")", ",", "\n",
      "    updatedAt: ISODate", "(", "\"", SameNow, "\"", ")", ",", "\n">>

mongoIdLine == <<"    _id: ObjectId", "(", "\"", NewOid, "\"", ")", ",", "\n">>

\* Object.entries(item).forEach(... `    ${key}: ${mongoValueToString(value)}${','}\n`)
mongoFieldLines(item) ==
    IF entriesThrow(item) THEN <<TypeError>>
    ELSE LET es == entries(item) IN
         concat([i \in 1..Len(es) |->
                   <<"    ">> \o es[i].k \o <<": ">> \o mongoValueToString(es[i].v)
                   \o comma(i < Len(es)) \o <<"\n">>])

mongoGenerateNestedDocuments(jsonData, collectionName, options) ==
    LET dataArray == IF isArray(jsonData) THEN Elems(jsonData) ELSE <<jsonData>> IN
    <<"// Nested document structure", "\n">>
    \o <<"db.">> \o collectionName \o <<".insertMany", "(", "[", "\n">>
    \o concat([index \in 1..Len(dataArray) |->
          <<"  ", "{", "\n">>
          \o (IF options.addIds THEN mongoIdLine ELSE <<>>)
          \o (IF options.addTimestamps THEN mongoTimestamps ELSE <<>>)
          \o mongoFieldLines(dataArray[index])
          \o <<"  ", "}">> \o comma(index < Len(dataArray)) \o <<"\n">>])
    \o <<"]", ")", ";", "\n", "\n">>

\* a flattening that hands the fields back last field first
mongoFlattenReversed(obj, prefix) ==
    LET es == entries(obj) IN [i \in 1..Len(es) |-> es[Len(es) + 1 - i]]

RECURSIVE mongoFlattenObject(_, _)
mongoFlattenObject(obj, prefix) ==
    LET es == entries(obj)
        newKey(i) == IF truthy(prefix) THEN prefix \o <<".">> \o es[i].k ELSE es[i].k
        step[i \in 0..Len(es)] ==
            IF i = 0 THEN <<>>
            ELSE IF isPlainObject(es[i].v)
                 THEN assign(step[i - 1], mongoFlattenObject(es[i].v, newKey(i)))
                 ELSE put(step[i - 1], newKey(i), es[i].v)
    IN step[Len(es)]

mongoGenerateFlatDocuments(jsonData, collectionName, options) ==
    LET dataArray == IF isArray(jsonData) THEN Elems(jsonData) ELSE <<jsonData>> IN
    <<"// Flat document structure", "\n">>
    \o <<"db.">> \o collectionName \o <<".insertMany", "(", "[", "\n">>
    \o concat([index \in 1..Len(dataArray) |->
          <<"  ", "{", "\n">>
          \o (IF options.addIds THEN mongoIdLine ELSE <<>>)
          \o (IF options.addTimestamps THEN mongoTimestamps ELSE <<>>)
          \o (IF entriesThrow(dataArray[index]) THEN <<TypeError>>
              ELSE mongoFieldLines(Obj(mongoFlattenObject(dataArray[index], <<>>))))
          \o <<"  ", "}">> \o comma(index < Len(dataArray)) \o <<"\n">>])
    \o <<"]", ")", ";", "\n", "\n">>

\* extractReferencedCollections(items, collections): the collections after
\* the walk.  A TypeError raised on the way is recorded as a collection of
\* that name; what was pushed before it stays pushed.
RECURSIVE mongoExtractReferencedCollections(_, _)
mongoExtractReferencedCollections(items, collections) ==
    LET perEntry(cols, e) ==
            LET collectionName == IF endsWith(e.k, <<"s">>) THEN e.k ELSE e.k \o <<"s">>
                c1 == IF isNonEmptyObject(e.v)
                      THEN pushAll(cols, collectionName, <<e.v>>) ELSE cols
            IN IF isArrayOfObjects(e.v)
               THEN mongoExtractReferencedCollections(
                        Elems(e.v), pushAll(c1, collectionName, Elems(e.v)))
               ELSE c1
        perItem(cols, item) ==
            IF has(cols, <<TypeError>>) THEN cols
            ELSE IF entriesThrow(item) THEN put(cols, <<TypeError>>, <<>>)
            ELSE LET es == entries(item)
                     walk[j \in 0..Len(es)] ==
                        IF j = 0 THEN cols
                        ELSE IF has(walk[j - 1], <<TypeError>>) THEN walk[j - 1]
                        ELSE perEntry(walk[j - 1], es[j])
                 IN walk[Len(es)]
        all[i \in 0..Len(items)] ==
            IF i = 0 THEN collections ELSE perItem(all[i - 1], items[i])
    IN all[Len(items)]

\* the collections generateReferencedDocuments builds before it emits text;
\* for an array root the first collection IS the caller's array
mongoCollections(jsonData, collectionName) ==
    IF isArray(jsonData)
    THEN mongoExtractReferencedCollections(
             Elems(jsonData), <<Entry(collectionName, Elems(jsonData))>>)
    ELSE mongoExtractReferencedCollections(
             <<jsonData>>, <<Entry(collectionName, <<jsonData>>)>>)

mongoReferencedFieldLines(item) ==
    IF entriesThrow(item) THEN <<TypeError>>
    ELSE LET es == entries(item) IN
         concat([i \in 1..Len(es) |->
            IF isNonEmptyObject(es[i].v)
            THEN <<"    ">> \o es[i].k
                 \o <<"Ref: ObjectId", "(", "\"", NewOid, "\"", ")", ",", "\n">>
            ELSE <<"    ">> \o es[i].k \o <<": ">> \o mongoValueToString(es[i].v)
                 \o comma(i < Len(es)) \o <<"\n">>])

mongoGenerateReferencedDocuments(jsonData, collectionName, options) ==
    LET collections == mongoCollections(jsonData, collectionName) IN
    IF has(collections, <<TypeError>>) THEN <<TypeError>>
    ELSE
    <<"// Referenced document structure", "\n">>
    \o concat([c \in 1..Len(collections) |->
        LET collection == collections[c].k
            items == collections[c].v
        IN <<"// Collection: ">> \o collection \o <<"\n">>
           \o <<"db.">> \o collection \o <<".insertMany", "(", "[", "\n">>
           \o concat([index \in 1..Len(items) |->
                 <<"  ", "{", "\n">>
                 \o (IF options.addIds THEN mongoIdLine ELSE <<>>)
                 \o (IF options.addTimestamps THEN mongoTimestamps ELSE <<>>)
                 \o mongoReferencedFieldLines(items[index])
                 \o <<"  ", "}">> \o comma(index < Len(items)) \o <<"\n">>])
           \o <<"]", ")", ";", "\n", "\n">>])

\* an emitter that writes the documents side by side, with no container
mongoGenerateSideBySide(jsonData, collectionName, options) ==
    mongoGenerateNestedDocuments(jsonData, collectionName, options)

mongoGenerateArrayBasedDocuments(jsonData, collectionName, options) ==
    LET dataArray == IF isArray(jsonData) THEN Elems(jsonData) ELSE <<jsonData>> IN
    <<"// Array-based document structure", "\n">>
    \o <<"db.">> \o collectionName \o <<".insertOne", "(", "{", "\n">>
    \o (IF options.addIds
        THEN <<"  _id: ObjectId", "(", "\"", NewOid, "\"", ")", ",", "\n">> ELSE <<>>)
    \o (IF options.addTimestamps
        THEN <<"  createdAt: ISODate", "(", "\"", NewNow, "\"", ")", ",", "\n",
               "  updatedAt: ISODate", "(", "\"", SameNow, "\"", ")", ",", "\n">>
        ELSE <<>>)
    \o <<"  items: ", "[", "\n">>
    \o concat([index \in 1..Len(dataArray) |->
          <<"    ", "{", "\n">>
          \o (IF options.addIds
              THEN <<"      _id: ObjectId", "(", "\"", NewOid, "\"", ")", ",", "\n">>
              ELSE <<>>)
          \o (IF entriesThrow(dataArray[index]) THEN <<TypeError>>
              ELSE LET es == entries(dataArray[index]) IN
                   concat([i \in 1..Len(es) |->
                      <<"      ">> \o es[i].k \o <<": ">> \o mongoValueToString(es[i].v)
                      \o comma(i < Len(es)) \o <<"\n">>]))
          \o <<"    ", "}">> \o comma(index < Len(dataArray)) \o <<"\n">>])
    \o <<"  ", "]", "\n">>
    \o <<"}", ")", ";", "\n", "\n">>


\* the candidate list of generateIndexSuggestions: only an array root is sampled
mongoIndexFields(jsonData) ==
    IF isArray(jsonData) /\ Len(jsonData.c) > 0
    THEN LET es == entries(jsonData.c[1].v) IN
         concat([i \in 1..Len(es) |->
            LET key == es[i].k
                value == es[i].v
                lower == toLowerCase(key)
            IN (IF includes(lower, <<"i","d">>) \/ endsWith(lower, <<"_","i","d">>)
                THEN <<key>> ELSE <<>>)
               \o (IF \/ (value.t = "str" /\ datePattern(value.s))
                      \/ value.t = "date"
                      \/ includes(lower, <<"d","a","t","e">>)
                      \/ includes(lower, <<"t","i","m","e">>)
                   THEN <<key>> ELSE <<>>)
               \o (IF \/ includes(lower, <<"n","a","m","e">>)
                      \/ includes(lower, <<"e","m","a","i","l">>)
                      \/ includes(lower, <<"u","s","e","r","n","a","m","e">>)
                   THEN <<key>> ELSE <<>>)])
    ELSE <<>>

\* Object.entries(sampleItem) of a null first element
indexSampleThrows(jsonData) ==
    isArray(jsonData) /\ Len(jsonData.c) > 0 /\ entriesThrow(jsonData.c[1].v)

\* slice(0, 2)
firstTwo(fields) == SubSeq(fields, 1, IF Len(fields) < 2 THEN Len(fields) ELSE 2)

\* an advisor that writes its heading and nothing under it
mongoSilentIndexSuggestions(jsonData, collectionName) ==
    <<"// Index Suggestions", "\n">>

mongoGenerateIndexSuggestions(jsonData, collectionName) ==
    IF indexSampleThrows(jsonData) THEN <<TypeError>>
    ELSE
    LET indexFields == mongoIndexFields(jsonData) IN
    <<"// Index Suggestions", "\n">>
    \o (IF Len(indexFields) > 0
        THEN concat([f \in 1..Len(indexFields) |->
                <<"db.">> \o collectionName \o <<".createIndex", "(", "{", " ">>
                \o indexFields[f] \o <<": 1 ", "}", ", ", "{", " name: ", "\"">>
                \o indexFields[f] \o <<"_index", "\"", " ", "}", ")", ";", "\n">>])
             \o (IF Len(indexFields) > 1
                 THEN <<"\n", "// Compound Index Suggestion", "\n">>
                      \o <<"db.">> \o collectionName \o <<".createIndex", "(", "{", " ">>
                      \o concat([f \in 1..2 |->
                            firstTwo(indexFields)[f] \o <<": 1">>
                            \o (IF f - 1 < 1 THEN <<", ">> ELSE <<>>)])
                      \o <<" ", "}", ", ", "{", " name: ", "\"", "compound_index", "\"",
                           " ", "}", ")", ";", "\n">>
                 ELSE <<>>)
        ELSE <<"// No obvious index candidates found in this data structure", "\n">>)

mongoCollectionName(jsonData) ==
    IF isArray(jsonData) THEN ItemsName
    ELSE IF Len(keys(jsonData)) > 0 THEN keys(jsonData)[1]
    ELSE CollectionName

generateMongoDBDocuments(jsonData, structure, options) ==
    IF ~isArray(jsonData) /\ entriesThrow(jsonData) THEN <<TypeError>>
    ELSE
    LET collectionName == mongoCollectionName(jsonData) IN
    <<"// MongoDB Shell Commands", "\n",
      "// Run these commands in MongoDB shell or MongoDB Compass", "\n", "\n">>
    \o <<"use ">>
    \o (IF truthy(options.dbName) THEN options.dbName ELSE DefaultDbName)
    \o <<";", "\n", "\n">>
    \o (CASE structure = "nested" ->
                mongoGenerateNestedDocuments(jsonData, collectionName, options)
          [] structure = "flat" ->
                mongoGenerateFlatDocuments(jsonData, collectionName, options)
          [] structure = "references" ->
                mongoGenerateReferencedDocuments(jsonData, collectionName, options)
          [] structure = "arrays" ->
                mongoGenerateArrayBasedDocuments(jsonData, collectionName, options)
          [] OTHER ->
                mongoGenerateNestedDocuments(jsonData, collectionName, options))
    \o (IF options.addIndexes
        THEN mongoGenerateIndexSuggestions(jsonData, collectionName) ELSE <<>>)

\* what the caller's document is after generateMongoDBDocuments: under
\* 'references' an array root is the first collection, and is pushed onto
mongoDocumentAfter(jsonData, structure) ==
    IF structure = "references" /\ isArray(jsonData)
    THEN Arr(get(mongoCollections(jsonData, mongoCollectionName(jsonData)),
                 mongoCollectionName(jsonData)))
    ELSE jsonData


(***************************************************************************)
(* Firebase generator (nosql/firebaseGenerator.js)                         *)
(***************************************************************************)
firebaseTimestamps ==
    <<"    createdAt: serverTimestamp", "(", ")", ",", "\n", "    updatedAt: serverTimestamp", "(", ")", ",", "\n">>

firebaseFieldLines(item, indent) ==
    IF entriesThrow(item) THEN <<TypeError>>
    ELSE LET es == entries(item) IN
         concat([i \in 1..Len(es) |->
                   indent \o es[i].k \o <<": ">> \o firebaseValueToString(es[i].v)
                   \o comma(i < Len(es)) \o <<"\n">>])

firebaseGenerateNestedDocuments(jsonData, collectionName, options) ==
    LET dataArray == IF isArray(jsonData) THEN Elems(jsonData) ELSE <<jsonData>> IN
    <<"// Nested document structure", "\n", "// Function to add documents to Firestore", "\n", "async function addNestedDocuments", "(", ")", " ", "{", "\n">>
    \o <<"  const collectionRef = collection", "(", "db, ", "\"">> \o collectionName \o <<"\"", ")", ";", "\n", "\n">>
    \o concat([index \in 1..Len(dataArray) |->
          <<"  // Document ">> \o NumChars(index) \o <<"\n">>
          \o (IF options.addIds
              THEN <<"  const docRef">> \o NumChars(index) \o <<" = doc", "(", "collectionRef, ", "\"">> \o <<NewId>> \o <<"\"", ")", ";", "\n">>
                   \o <<"  await setDoc", "(", "docRef">> \o NumChars(index) \o <<", ", "{", "\n">>
              ELSE <<"  await addDoc", "(", "collectionRef, ", "{", "\n">>)
          \o (IF options.addTimestamps THEN firebaseTimestamps ELSE <<>>)
          \o firebaseFieldLines(dataArray[index], <<"    ">>)
          \o <<"  ", "}", ")", ";", "\n", "\n">>])
    \o <<"  console.log", "(", "\"">> \o NumChars(Len(dataArray)) \o <<" documents added to ">> \o collectionName \o <<" collection", "\"", ")", ";", "\n">>
    \o <<"}", "\n", "\n">>

RECURSIVE firebaseFlattenObject(_, _)
firebaseFlattenObject(obj, prefix) ==
    LET es == entries(obj)
        newKey(i) == IF truthy(prefix) THEN prefix \o <<"_">> \o es[i].k ELSE es[i].k
        step[i \in 0..Len(es)] ==
            IF i = 0 THEN <<>>
            ELSE IF isPlainObject(es[i].v)
                 THEN assign(step[i - 1], firebaseFlattenObject(es[i].v, newKey(i)))
                 ELSE put(step[i - 1], newKey(i), es[i].v)
    IN step[Len(es)]

firebaseGenerateFlatDocuments(jsonData, collectionName, options) ==
    LET dataArray == IF isArray(jsonData) THEN Elems(jsonData) ELSE <<jsonData>> IN
    <<"// Flat document structure", "\n", "// Function to add flat documents to Firestore", "\n", "async function addFlatDocuments", "(", ")", " ", "{", "\n">>
    \o <<"  const collectionRef = collection", "(", "db, ", "\"">> \o collectionName \o <<"\"", ")", ";", "\n", "\n">>
    \o concat([index \in 1..Len(dataArray) |->
          <<"  // Document ">> \o NumChars(index) \o <<"\n">>
          \o (IF options.addIds
              THEN <<"  const docRef">> \o NumChars(index) \o <<" = doc", "(", "collectionRef, ", "\"">> \o <<NewId>> \o <<"\"", ")", ";", "\n">>
                   \o <<"  await setDoc", "(", "docRef">> \o NumChars(index) \o <<", ", "{", "\n">>
              ELSE <<"  await addDoc", "(", "collectionRef, ", "{", "\n">>)
          \o (IF options.addTimestamps THEN firebaseTimestamps ELSE <<>>)
          \o (IF entriesThrow(dataArray[index]) THEN <<TypeError>>
              ELSE firebaseFieldLines(
                       Obj(firebaseFlattenObject(dataArray[index], <<>>)), <<"    ">>))
          \o <<"  ", "}", ")", ";", "\n", "\n">>])
    \o <<"  console.log", "(", "\"">> \o NumChars(Len(dataArray)) \o <<" flat documents added to ">> \o collectionName \o <<" collection", "\"", ")", ";", "\n">>
    \o <<"}", "\n", "\n">>

RECURSIVE firebaseExtractReferencedCollections(_, _)
firebaseExtractReferencedCollections(items, collections) ==
    LET perEntry(cols, e) ==
            LET collectionName == IF endsWith(e.k, <<"s">>) THEN e.k ELSE e.k \o <<"s">>
                c1 == IF isNonEmptyObject(e.v)
                      THEN pushAll(cols, collectionName, <<e.v>>) ELSE cols
            IN IF isArrayOfObjects(e.v)
               THEN firebaseExtractReferencedCollections(
                        Elems(e.v), pushAll(c1, collectionName, Elems(e.v)))
               ELSE c1
        perItem(cols, item) ==
            IF has(cols, <<TypeError>>) THEN cols
            ELSE IF entriesThrow(item) THEN put(cols, <<TypeError>>, <<>>)
            ELSE LET es == entries(item)
                     walk[j \in 0..Len(es)] ==
                        IF j = 0 THEN cols
                        ELSE IF has(walk[j - 1], <<TypeError>>) THEN walk[j - 1]
                        ELSE perEntry(walk[j - 1], es[j])
                 IN walk[Len(es)]
        all[i \in 0..Len(items)] ==
            IF i = 0 THEN collections ELSE perItem(all[i - 1], items[i])
    IN all[Len(items)]

firebaseCollections(jsonData, collectionName) ==
    IF isArray(jsonData)
    THEN firebaseExtractReferencedCollections(
             Elems(jsonData), <<Entry(collectionName, Elems(jsonData))>>)
    ELSE firebaseExtractReferencedCollections(
             <<jsonData>>, <<Entry(collectionName, <<jsonData>>)>>)

firebaseReferencedFieldLines(item) ==
    IF entriesThrow(item) THEN <<TypeError>>
    ELSE LET es == entries(item) IN
         concat([i \in 1..Len(es) |->
            IF isNonEmptyObject(es[i].v)
            THEN <<"    ">> \o es[i].k \o <<"Ref: doc", "(", "db, ", "\"">> \o es[i].k \o <<"s", "\"", ", ", "\"">> \o <<NewId>> \o <<"\"", ")", ",", "\n">>
            ELSE <<"    ">> \o es[i].k \o <<": ">> \o firebaseValueToString(es[i].v)
                 \o comma(i < Len(es)) \o <<"\n">>])

firebaseGenerateReferencedDocuments(jsonData, collectionName, options) ==
    LET collections == firebaseCollections(jsonData, collectionName) IN
    IF has(collections, <<TypeError>>) THEN <<TypeError>>
    ELSE
    <<"// Referenced document structure", "\n", "// Function to add documents with references to Firestore", "\n", "async function addReferencedDocuments", "(", ")", " ", "{", "\n">>
    \o concat([c \in 1..Len(collections) |->
        LET collection == collections[c].k
            items == collections[c].v
        IN <<"  // Collection: ">> \o collection \o <<"\n">>
           \o <<"  const ">> \o collection \o <<"Ref = collection", "(", "db, ", "\"">> \o collection \o <<"\"", ")", ";", "\n", "\n">>
           \o concat([index \in 1..Len(items) |->
                 <<"  // ">> \o collection \o <<" document ">> \o NumChars(index) \o <<"\n">>
                 \o (IF options.addIds
                     THEN <<"  const ">> \o collection \o <<"Doc">> \o NumChars(index) \o <<" = doc", "(">> \o collection \o <<"Ref, ", "\"">> \o <<NewId>> \o <<"\"", ")", ";", "\n">>
                          \o <<"  await setDoc", "(">> \o collection \o <<"Doc">> \o NumChars(index) \o <<", ", "{", "\n">>
                     ELSE <<"  const ">> \o collection \o <<"Doc">> \o NumChars(index) \o <<" = await addDoc", "(">> \o collection \o <<"Ref, ", "{", "\n">>)
                 \o (IF options.addTimestamps THEN firebaseTimestamps ELSE <<>>)
                 \o firebaseReferencedFieldLines(items[index])
                 \o <<"  ", "}", ")", ";", "\n", "\n">>])])
    \o <<"  console.log", "(", "\"", "Referenced documents added to Firestore", "\"", ")", ";", "\n", "}", "\n", "\n">>

firebaseGenerateArrayBasedDocuments(jsonData, collectionName, options) ==
    LET dataArray == IF isArray(jsonData) THEN Elems(jsonData) ELSE <<jsonData>> IN
    <<"// Array-based document structure", "\n", "// Function to add array-based document to Firestore", "\n", "async function addArrayBasedDocument", "(", ")", " ", "{", "\n">>
    \o <<"  const collectionRef = collection", "(", "db, ", "\"">> \o collectionName \o <<"\"", ")", ";", "\n", "\n">>
    \o <<"  // Create a single document with items array", "\n">>
    \o (IF options.addIds
        THEN <<"  const docRef = doc", "(", "collectionRef, ", "\"">> \o <<NewId>> \o <<"\"", ")", ";", "\n", "  await setDoc", "(", "docRef, ", "{", "\n">>
        ELSE <<"  await addDoc", "(", "collectionRef, ", "{", "\n">>)
    \o (IF options.addTimestamps THEN firebaseTimestamps ELSE <<>>)
    \o <<"    items: ", "[", "\n">>
    \o concat([index \in 1..Len(dataArray) |->
          <<"      ", "{", "\n">>
          \o (IF options.addIds
              THEN <<"        id: ", "\"">> \o <<NewId>> \o <<"\"", ",", "\n">>
              ELSE <<>>)
          \o firebaseFieldLines(dataArray[index], <<"        ">>)
          \o <<"      ", "}">> \o comma(index < Len(dataArray)) \o <<"\n">>])
    \o <<"    ", "]", "\n", "  ", "}", ")", ";", "\n", "\n">>
    \o <<"  console.log", "(", "\"", "Array-based document added to ">> \o collectionName \o <<" collection", "\"", ")", ";", "\n", "}", "\n", "\n">>

firebaseIndexFields(jsonData) ==
    IF isArray(jsonData) /\ Len(jsonData.c) > 0
    THEN LET es == entries(jsonData.c[1].v) IN
         concat([i \in 1..Len(es) |->
            LET key == es[i].k
                value == es[i].v
                lower == toLowerCase(key)
            IN (IF includes(lower, <<"i","d">>) \/ endsWith(lower, <<"_","i","d">>)
                THEN <<key>> ELSE <<>>)
               \o (IF \/ (value.t = "str" /\ datePattern(value.s))
                      \/ value.t = "date"
                      \/ includes(lower, <<"d","a","t","e">>)
                      \/ includes(lower, <<"t","i","m","e">>)
                   THEN <<key>> ELSE <<>>)
               \o (IF \/ includes(lower, <<"n","a","m","e">>)
                      \/ includes(lower, <<"e","m","a","i","l">>)
                      \/ includes(lower, <<"u","s","e","r","n","a","m","e">>)
                   THEN <<key>> ELSE <<>>)])
    ELSE <<>>

firebaseGenerateIndexSuggestions(jsonData, collectionName) ==
    IF indexSampleThrows(jsonData) THEN <<TypeError>>
    ELSE
    LET indexFields == firebaseIndexFields(jsonData) IN
    <<"// Index Suggestions for Firebase", "\n", "// Add these indexes in the Firebase console or using the Firebase CLI", "\n", "\n">>
    \o (IF Len(indexFields) > 0
        THEN <<"// Firebase indexes for collection: ">> \o collectionName \o <<"\n", "/*", "\n">>
             \o concat([f \in 1..Len(indexFields) |->
                   <<"  Field: ">> \o indexFields[f] \o <<", Order: ASCENDING", "\n">>])
             \o (IF Len(indexFields) > 1
                 THEN <<"\n", "  // Compound index suggestion:", "\n">>
                      \o concat([f \in 1..2 |->
                            <<"  Field: ">> \o firstTwo(indexFields)[f] \o <<", Order: ASCENDING", "\n">>])
                 ELSE <<>>)
             \o <<"*/", "\n", "\n", "// Firebase CLI command example:", "\n", "// firebase firestore:indexes --project your-project-id", "\n", "\n">>
        ELSE <<"// No obvious index candidates found in this data structure", "\n", "\n">>)

firebaseCollectionName(jsonData) ==
    IF isArray(jsonData) THEN ItemsName
    ELSE IF Len(keys(jsonData)) > 0 THEN keys(jsonData)[1]
    ELSE CollectionName

generateFirebaseDocuments(jsonData, structure, options) ==
    IF ~isArray(jsonData) /\ entriesThrow(jsonData) THEN <<TypeError>>
    ELSE
    LET collectionName == firebaseCollectionName(jsonData) IN
    <<"// Firebase Firestore Code", "\n", "// Requires Firebase SDK to be initialized in your project", "\n", "\n", "// Import Firebase modules", "\n">>
    \o <<"import ", "{", " getFirestore, collection, doc, setDoc, addDoc, serverTimestamp ", "}", " from ", "\"", "firebase/firestore", "\"", ";", "\n", "\n">>
    \o <<"// Get Firestore instance", "\n", "const db = getFirestore", "(", ")", ";", "\n", "\n">>
    \o (CASE structure = "nested" ->
                firebaseGenerateNestedDocuments(jsonData, collectionName, options)
          [] structure = "flat" ->
                firebaseGenerateFlatDocuments(jsonData, collectionName, options)
          [] structure = "references" ->
                firebaseGenerateReferencedDocuments(jsonData, collectionName, options)
          [] structure = "arrays" ->
                firebaseGenerateArrayBasedDocuments(jsonData, collectionName, options)
          [] OTHER ->
                firebaseGenerateNestedDocuments(jsonData, collectionName, options))
    \o (IF options.addIndexes
        THEN firebaseGenerateIndexSuggestions(jsonData, collectionName) ELSE <<>>)

firebaseDocumentAfter(jsonData, structure) ==
    IF structure = "references" /\ isArray(jsonData)
    THEN Arr(get(firebaseCollections(jsonData, firebaseCollectionName(jsonData)),
                 firebaseCollectionName(jsonData)))
    ELSE jsonData

(***************************************************************************)
(* DynamoDB generator (nosql/dynamodbGenerator.js)                         *)
(***************************************************************************)
\* DynamoDB's batch write limit, the threshold of generateNestedDocuments
BatchLimit == 25

\* Object.entries(item).forEach(... `${key}: ${dynamoValueToString(value)},\n`)
dynamoFieldLines(item, indent) ==
    IF entriesThrow(item) THEN <<TypeError>>
    ELSE LET es == entries(item) IN
         concat([i \in 1..Len(es) |->
                   indent \o es[i].k \o <<": ">> \o dynamoValueToString(es[i].v)
                   \o <<",", "\n">>])

\* a test that sends a root of BatchLimit documents down the per-item path
belowBatchLimit(dataArray) == Len(dataArray) < BatchLimit

\* dataArray.length <= 25: the documents fit one batch write
withinBatchLimit(dataArray) == Len(dataArray) <= BatchLimit

dynamoGenerateNestedDocuments(jsonData, tableName, options) ==
    LET dataArray == IF isArray(jsonData) THEN Elems(jsonData) ELSE <<jsonData>> IN
    <<"// Nested document structure", "\n">>
    \o (IF withinBatchLimit(dataArray)
        THEN
          <<"// Function to add items using BatchWriteCommand", "\n", "async function addNestedItems", "(", ")", " ", "{", "\n", "  const items = ", "[", "]", ";", "\n", "\n">>
          \o concat([index \in 1..Len(dataArray) |->
          <<"  // Item ">> \o NumChars(index) \o <<"\n", "  items.push", "(", "{", "\n", "    PutRequest: ", "{", "\n", "      Item: ", "{", "\n">>
          \o (IF options.addIds
              THEN <<"        id: ", "\"">> \o <<NewId>> \o <<"\"", ",", "\n">>
              ELSE <<"        id: ", "\"">> \o NumChars(index) \o <<"\"", ",", "\n">>)
          \o (IF truthy(options.sortKey)
              THEN <<"        ">> \o options.sortKey \o <<": ", "\"">> \o <<NewNow>> \o <<"\"", ",", "\n">>
              ELSE <<>>)
          \o (IF options.addTimestamps
              THEN <<"        createdAt: ", "\"">> \o <<NewNow>> \o <<"\"", ",", "\n", "        updatedAt: ", "\"">> \o <<NewNow>> \o <<"\"", ",", "\n">>
              ELSE <<>>)
          \o dynamoFieldLines(dataArray[index], <<"        ">>)
          \o <<"      ", "}", "\n", "    ", "}", "\n", "  ", "}", ")", ";", "\n", "\n">>])
          \o <<"  const command = new BatchWriteCommand", "(", "{", "\n", "    RequestItems: ", "{", "\n", "      ", "\"">> \o tableName \o <<"\"", ": items", "\n", "    ", "}", "\n", "  ", "}", ")", ";", "\n", "\n">>
          \o <<"  try ", "{", "\n", "    const response = await docClient.send", "(", "command", ")", ";", "\n", "    console.log", "(", "\"", "Success - items added to ">> \o tableName \o <<"\"", ")", ";", "\n", "    return response;", "\n">>
          \o <<"  ", "}", " catch ", "(", "err", ")", " ", "{", "\n", "    console.error", "(", "\"", "Error:", "\"", ", err", ")", ";", "\n", "  ", "}", "\n", "}", "\n", "\n">>
        ELSE
          <<"// Function to add items using individual PutCommand", "\n", "async function addNestedItems", "(", ")", " ", "{", "\n", "  try ", "{", "\n">>
          \o concat([index \in 1..Len(dataArray) |->
          <<"    // Item ">> \o NumChars(index) \o <<"\n", "    await docClient.send", "(", "\n", "      new PutCommand", "(", "{", "\n", "        TableName: ", "\"">> \o tableName \o <<"\"", ",", "\n", "        Item: ", "{", "\n">>
          \o (IF options.addIds
              THEN <<"          id: ", "\"">> \o <<NewId>> \o <<"\"", ",", "\n">>
              ELSE <<"          id: ", "\"">> \o NumChars(index) \o <<"\"", ",", "\n">>)
          \o (IF truthy(options.sortKey)
              THEN <<"          ">> \o options.sortKey \o <<": ", "\"">> \o <<NewNow>> \o <<"\"", ",", "\n">>
              ELSE <<>>)
          \o (IF options.addTimestamps
              THEN <<"          createdAt: ", "\"">> \o <<NewNow>> \o <<"\"", ",", "\n", "          updatedAt: ", "\"">> \o <<NewNow>> \o <<"\"", ",", "\n">>
              ELSE <<>>)
          \o dynamoFieldLines(dataArray[index], <<"          ">>)
          \o <<"        ", "}", "\n", "      ", "}", ")", "\n", "    ", ")", ";", "\n", "\n">>])
          \o <<"    console.log", "(", "\"", "Success - ">> \o NumChars(Len(dataArray)) \o <<" items added to ">> \o tableName \o <<"\"", ")", ";", "\n">>
          \o <<"  ", "}", " catch ", "(", "err", ")", " ", "{", "\n", "    console.error", "(", "\"", "Error:", "\"", ", err", ")", ";", "\n", "  ", "}", "\n", "}", "\n", "\n">>)

RECURSIVE dynamoFlattenObject(_, _)
dynamoFlattenObject(obj, prefix) ==
    LET es == entries(obj)
        newKey(i) == IF truthy(prefix) THEN prefix \o <<"_">> \o es[i].k ELSE es[i].k
        step[i \in 0..Len(es)] ==
            IF i = 0 THEN <<>>
            ELSE IF isPlainObject(es[i].v)
                 THEN assign(step[i - 1], dynamoFlattenObject(es[i].v, newKey(i)))
                 ELSE put(step[i - 1], newKey(i), es[i].v)
    IN step[Len(es)]

\* a flat emitter that groups the documents the way the nested emitter does
dynamoBatchFlatDocuments(jsonData, tableName, options) ==
    dynamoGenerateNestedDocuments(jsonData, tableName, options)

dynamoGenerateFlatDocuments(jsonData, tableName, options) ==
    LET dataArray == IF isArray(jsonData) THEN Elems(jsonData) ELSE <<jsonData>> IN
    <<"// Flat document structure", "\n", "// Function to add flattened items", "\n", "async function addFlatItems", "(", ")", " ", "{", "\n", "  try ", "{", "\n">>
    \o concat([index \in 1..Len(dataArray) |->
          <<"    // Item ">> \o NumChars(index) \o <<"\n", "    await docClient.send", "(", "\n", "      new PutCommand", "(", "{", "\n", "        TableName: ", "\"">> \o tableName \o <<"\"", ",", "\n", "        Item: ", "{", "\n">>
          \o (IF options.addIds
              THEN <<"          id: ", "\"">> \o <<NewId>> \o <<"\"", ",", "\n">>
              ELSE <<"          id: ", "\"">> \o NumChars(index) \o <<"\"", ",", "\n">>)
          \o (IF truthy(options.sortKey)
              THEN <<"          ">> \o options.sortKey \o <<": ", "\"">> \o <<NewNow>> \o <<"\"", ",", "\n">>
              ELSE <<>>)
          \o (IF options.addTimestamps
              THEN <<"          createdAt: ", "\"">> \o <<NewNow>> \o <<"\"", ",", "\n", "          updatedAt: ", "\"">> \o <<NewNow>> \o <<"\"", ",", "\n">>
              ELSE <<>>)
          \o (IF entriesThrow(dataArray[index]) THEN <<TypeError>>
              ELSE dynamoFieldLines(Obj(dynamoFlattenObject(dataArray[index], <<>>)), <<"          ">>))
          \o <<"        ", "}", "\n", "      ", "}", ")", "\n", "    ", ")", ";", "\n", "\n">>])
    \o <<"    console.log", "(", "\"", "Success - ">> \o NumChars(Len(dataArray)) \o <<" flat items added to ">> \o tableName \o <<"\"", ")", ";", "\n">>
    \o <<"  ", "}", " catch ", "(", "err", ")", " ", "{", "\n", "    console.error", "(", "\"", "Error:", "\"", ", err", ")", ";", "\n", "  ", "}", "\n", "}", "\n", "\n">>

MainName == <<"M","a","i","n">>

RECURSIVE dynamoExtractEntities(_, _)
dynamoExtractEntities(items, entities) ==
    LET perEntry(ents, e) ==
            LET entityType == capitalize(e.k)
                singularType == IF endsWith(entityType, <<"s">>)
                                THEN dropLast(entityType) ELSE entityType
                c1 == IF isNonEmptyObject(e.v)
                      THEN pushAll(ents, entityType, <<e.v>>) ELSE ents
            IN IF isArrayOfObjects(e.v)
               THEN dynamoExtractEntities(
                        Elems(e.v), pushAll(c1, singularType, Elems(e.v)))
               ELSE c1
        perItem(ents, item) ==
            IF has(ents, <<TypeError>>) THEN ents
            ELSE IF entriesThrow(item) THEN put(ents, <<TypeError>>, <<>>)
            ELSE LET es == entries(item)
                     walk[j \in 0..Len(es)] ==
                        IF j = 0 THEN ents
                        ELSE IF has(walk[j - 1], <<TypeError>>) THEN walk[j - 1]
                        ELSE perEntry(walk[j - 1], es[j])
                 IN walk[Len(es)]
        all[i \in 0..Len(items)] ==
            IF i = 0 THEN entities ELSE perItem(all[i - 1], items[i])
    IN all[Len(items)]

\* the entities generateReferencedDocuments builds; for an array root the
\* 'Main' entity IS the caller's array
dynamoEntities(jsonData) ==
    IF isArray(jsonData)
    THEN dynamoExtractEntities(Elems(jsonData), <<Entry(MainName, Elems(jsonData))>>)
    ELSE dynamoExtractEntities(<<jsonData>>, <<Entry(MainName, <<jsonData>>)>>)

dynamoReferencedFieldLines(item) ==
    IF entriesThrow(item) THEN <<TypeError>>
    ELSE LET es == entries(item) IN
         concat([i \in 1..Len(es) |->
            IF isNonEmptyObject(es[i].v)
            THEN <<"          ">> \o es[i].k \o <<"Id: ", "\"">> \o <<NewId>> \o <<"\"", ",", "\n", "          ">> \o es[i].k \o <<"Type: ", "\"">> \o capitalize(es[i].k) \o <<"\"", ",", "\n">>
            ELSE <<"          ">> \o es[i].k \o <<": ">> \o dynamoValueToString(es[i].v)
                 \o <<",", "\n">>])

dynamoGenerateReferencedDocuments(jsonData, tableName, options) ==
    LET entities == dynamoEntities(jsonData) IN
    IF has(entities, <<TypeError>>) THEN <<TypeError>>
    ELSE
    <<"// Referenced document structure using single table design", "\n", "// This approach uses a single table with different item types", "\n", "\n", "// Function to add items with references", "\n", "async function addReferencedItems", "(", ")", " ", "{", "\n", "  try ", "{", "\n">>
    \o concat([c \in 1..Len(entities) |->
        LET entityType == entities[c].k
            items == entities[c].v
        IN concat([index \in 1..Len(items) |->
              <<"    // ">> \o entityType \o <<" item ">> \o NumChars(index) \o <<"\n", "    await docClient.send", "(", "\n", "      new PutCommand", "(", "{", "\n", "        TableName: ", "\"">> \o tableName \o <<"\"", ",", "\n", "        Item: ", "{", "\n">>
              \o <<"          PK: ", "\"">> \o entityType \o <<"#">> \o <<NewId>> \o <<"\"", ",", "\n">>
              \o <<"          SK: ", "\"">> \o entityType \o <<"#">> \o <<SameId>> \o <<"\"", ",", "\n", "          type: ", "\"">> \o entityType \o <<"\"", ",", "\n", "          id: ", "\"">> \o <<SameId>> \o <<"\"", ",", "\n">>
              \o (IF options.addTimestamps
                  THEN <<"          createdAt: ", "\"">> \o <<NewNow>> \o <<"\"", ",", "\n", "          updatedAt: ", "\"">> \o <<NewNow>> \o <<"\"", ",", "\n">>
                  ELSE <<>>)
              \o dynamoReferencedFieldLines(items[index])
              \o <<"        ", "}", "\n", "      ", "}", ")", "\n", "    ", ")", ";", "\n", "\n">>])])
    \o (IF Len(entities) > 1
        THEN <<"    // Note: In a real application, you would create relationships", "\n", "    // between entities using GSIs ", "(", "Global Secondary Indexes", ")", "\n", "    // Example: PK: ", "\"", "Main#123", "\"", ", SK: ", "\"", "RelatedEntity#456", "\"", "\n", "\n">>
        ELSE <<>>)
    \o <<"    console.log", "(", "\"", "Success - items added to ">> \o tableName \o <<" with references", "\"", ")", ";", "\n">>
    \o <<"  ", "}", " catch ", "(", "err", ")", " ", "{", "\n", "    console.error", "(", "\"", "Error:", "\"", ", err", ")", ";", "\n", "  ", "}", "\n", "}", "\n", "\n">>

dynamoGenerateArrayBasedDocuments(jsonData, tableName, options) ==
    LET dataArray == IF isArray(jsonData) THEN Elems(jsonData) ELSE <<jsonData>> IN
    <<"// Array-based document structure", "\n", "// Function to add a single item with array of sub-items", "\n", "async function addArrayBasedItem", "(", ")", " ", "{", "\n", "  try ", "{", "\n", "    // Create a single item with sub-items array", "\n", "    await docClient.send", "(", "\n", "      new PutCommand", "(", "{", "\n", "        TableName: ", "\"">> \o tableName \o <<"\"", ",", "\n", "        Item: ", "{", "\n">>
    \o (IF options.addIds
        THEN <<"          id: ", "\"">> \o <<NewId>> \o <<"\"", ",", "\n">>
        ELSE <<"          id: ", "\"", "main-item", "\"", ",", "\n">>)
    \o (IF options.addTimestamps
        THEN <<"          createdAt: ", "\"">> \o <<NewNow>> \o <<"\"", ",", "\n", "          updatedAt: ", "\"">> \o <<NewNow>> \o <<"\"", ",", "\n">>
        ELSE <<>>)
    \o <<"          items: ", "[", "\n">>
    \o concat([index \in 1..Len(dataArray) |->
          <<"            ", "{", "\n">>
          \o (IF options.addIds
              THEN <<"              id: ", "\"">> \o <<NewId>> \o <<"\"", ",", "\n">>
              ELSE <<"              id: ", "\"", "item-">> \o NumChars(index) \o <<"\"", ",", "\n">>)
          \o dynamoFieldLines(dataArray[index], <<"              ">>)
          \o <<"            ", "}">> \o comma(index < Len(dataArray)) \o <<"\n">>])
    \o <<"          ", "]", "\n", "        ", "}", "\n", "      ", "}", ")", "\n", "    ", ")", ";", "\n", "\n">>
    \o <<"    console.log", "(", "\"", "Success - array-based item added to ">> \o tableName \o <<"\"", ")", ";", "\n">>
    \o <<"  ", "}", " catch ", "(", "err", ")", " ", "{", "\n", "    console.error", "(", "\"", "Error:", "\"", ", err", ")", ";", "\n", "  ", "}", "\n", "}", "\n", "\n">>

dynamoIndexFields(jsonData) ==
    IF isArray(jsonData) /\ Len(jsonData.c) > 0
    THEN LET es == entries(jsonData.c[1].v) IN
         concat([i \in 1..Len(es) |->
            LET key == es[i].k
                value == es[i].v
                lower == toLowerCase(key)
            IN (IF includes(lower, <<"i","d">>) \/ endsWith(lower, <<"_","i","d">>)
                THEN <<key>> ELSE <<>>)
               \o (IF \/ (value.t = "str" /\ datePattern(value.s))
                      \/ value.t = "date"
                      \/ includes(lower, <<"d","a","t","e">>)
                      \/ includes(lower, <<"t","i","m","e">>)
                   THEN <<key>> ELSE <<>>)
               \o (IF \/ includes(lower, <<"n","a","m","e">>)
                      \/ includes(lower, <<"e","m","a","i","l">>)
                      \/ includes(lower, <<"u","s","e","r","n","a","m","e">>)
                   THEN <<key>> ELSE <<>>)])
    ELSE <<>>

dynamoGenerateIndexSuggestions(jsonData, tableName) ==
    IF indexSampleThrows(jsonData) THEN <<TypeError>>
    ELSE
    LET indexFields == dynamoIndexFields(jsonData) IN
    <<"// DynamoDB Index Suggestions", "\n", "// These are suggestions for Global Secondary Indexes ", "(", "GSIs", ")", "\n", "\n">>
    \o (IF Len(indexFields) > 0
        THEN <<"// CloudFormation template snippet for GSIs", "\n", "/*", "\n", "Resources:", "\n", "  ">> \o tableName \o <<"Table:", "\n", "    Type: AWS::DynamoDB::Table", "\n", "    Properties:", "\n", "      TableName: ">> \o tableName \o <<"\n", "      AttributeDefinitions:", "\n", "        - AttributeName: id", "\n", "          AttributeType: S", "\n">>
             \o concat([f \in 1..Len(indexFields) |->
                   <<"        - AttributeName: ">> \o indexFields[f] \o <<"\n", "          AttributeType: S", "\n">>])
             \o <<"      KeySchema:", "\n", "        - AttributeName: id", "\n", "          KeyType: HASH", "\n", "      GlobalSecondaryIndexes:", "\n">>
             \o concat([f \in 1..Len(indexFields) |->
                   <<"        - IndexName: ">> \o indexFields[f] \o <<"Index", "\n", "          KeySchema:", "\n", "            - AttributeName: ">> \o indexFields[f] \o <<"\n", "              KeyType: HASH", "\n", "          Projection:", "\n", "            ProjectionType: ALL", "\n">>
                   \o (IF f < Len(indexFields) THEN <<"\n">> ELSE <<>>)])
             \o <<"*/", "\n", "\n", "// AWS CLI command example:", "\n", "// aws dynamodb update-table \\", "\n", "//   --table-name ">> \o tableName \o <<" \\", "\n", "//   --attribute-definitions AttributeName=">> \o indexFields[1] \o <<",AttributeType=S \\", "\n">>
             \o <<"//   --global-secondary-index-updates ", "\"", "[", "{", "\\", "\"", "Create\\", "\"", ":", "{", "\\", "\"", "IndexName\\", "\"", ":\\", "\"">> \o indexFields[1] \o <<"Index\\", "\"", ",\\", "\"", "KeySchema\\", "\"", ":", "[", "{", "\\", "\"", "AttributeName\\", "\"", ":\\", "\"">> \o indexFields[1] \o <<"\\", "\"", ",\\", "\"", "KeyType\\", "\"", ":\\", "\"", "HASH\\", "\"", "}", "]", ",\\", "\"", "Projection\\", "\"", ":", "{", "\\", "\"", "ProjectionType\\", "\"", ":\\", "\"", "ALL\\", "\"", "}", "}", "}", "]", "\"", "\n", "\n">>
        ELSE <<"// No obvious index candidates found in this data structure", "\n", "\n">>)

dynamoTableName(jsonData) ==
    IF isArray(jsonData) THEN <<"I","t","e","m","s">>
    ELSE IF Len(keys(jsonData)) > 0 THEN keys(jsonData)[1]
    ELSE <<"D","y","n","a","m","o","T","a","b","l","e">>

generateDynamoDBDocuments(jsonData, structure, options) ==
    IF ~isArray(jsonData) /\ entriesThrow(jsonData) THEN <<TypeError>>
    ELSE
    LET tableName == dynamoTableName(jsonData) IN
    <<"// AWS DynamoDB Code", "\n", "// Requires AWS SDK to be initialized in your project", "\n", "\n", "// Import AWS SDK modules", "\n", "import ", "{", " DynamoDBClient ", "}", " from ", "\"", "@aws-sdk/client-dynamodb", "\"", ";", "\n", "import ", "{", " DynamoDBDocumentClient, PutCommand, BatchWriteCommand ", "}", " from ", "\"", "@aws-sdk/lib-dynamodb", "\"", ";", "\n", "\n">>
    \o <<"// Initialize DynamoDB client", "\n", "const client = new DynamoDBClient", "(", "{", " region: ", "\"", "us-east-1", "\"", " ", "}", ")", ";", "\n", "const docClient = DynamoDBDocumentClient.from", "(", "client", ")", ";", "\n", "\n">>
    \o (CASE structure = "nested" ->
                dynamoGenerateNestedDocuments(jsonData, tableName, options)
          [] structure = "flat" ->
                dynamoGenerateFlatDocuments(jsonData, tableName, options)
          [] structure = "references" ->
                dynamoGenerateReferencedDocuments(jsonData, tableName, options)
          [] structure = "arrays" ->
                dynamoGenerateArrayBasedDocuments(jsonData, tableName, options)
          [] OTHER ->
                dynamoGenerateNestedDocuments(jsonData, tableName, options))
    \o (IF options.addIndexes
        THEN dynamoGenerateIndexSuggestions(jsonData, tableName) ELSE <<>>)

dynamoDocumentAfter(jsonData, structure) ==
    IF structure = "references" /\ isArray(jsonData)
    THEN Arr(get(dynamoEntities(jsonData), MainName))
    ELSE jsonData

(***************************************************************************)
(* CouchDB generator (js/nosql/couchdbGenerator.js)                        *)
(***************************************************************************)
couchFieldLines(item, indent) ==
    IF entriesThrow(item) THEN <<TypeError>>
    ELSE LET es == entries(item) IN
         concat([i \in 1..Len(es) |->
                   indent \o es[i].k \o <<": ">> \o couchValueToString(es[i].v)
                   \o comma(i < Len(es)) \o <<"\n">>])

couchGenerateNestedDocuments(jsonData, options) ==
    LET dataArray == IF isArray(jsonData) THEN Elems(jsonData) ELSE <<jsonData>>
        \* dataArray[0], undefined when the array is empty
        item == IF Len(dataArray) > 0 THEN dataArray[1] ELSE Undefined
    IN
    <<"// Nested document structure", "\n", "// Function to add nested documents", "\n", "async function addNestedDocuments", "(", ")", " ", "{", "\n">>
    \o (IF Len(dataArray) > 1
        THEN
          <<"  // Prepare documents for bulk insert", "\n", "  const docs = ", "[", "\n">>
          \o concat([index \in 1..Len(dataArray) |->
          <<"    ", "{", "\n">>
          \o (IF options.addIds
              THEN <<"      _id: ", "\"">> \o <<NewId>> \o <<"\"", ",", "\n">>
              ELSE <<>>)
          \o (IF options.addTimestamps
              THEN <<"      createdAt: ", "\"">> \o <<NewNow>> \o <<"\"", ",", "\n">>
                   \o <<"      updatedAt: ", "\"">> \o <<SameNow>> \o <<"\"", ",", "\n">>
              ELSE <<>>)
          \o couchFieldLines(dataArray[index], <<"      ">>)
          \o <<"    ", "}">> \o comma(index < Len(dataArray)) \o <<"\n">>])
          \o <<"  ", "]", ";", "\n", "\n", "  try ", "{", "\n", "    const response = await db.bulk", "(", "{", " docs ", "}", ")", ";", "\n", "    console.log", "(", "\"", "Bulk insert successful:", "\"", ", response.length, ", "\"", "documents inserted", "\"", ")", ";", "\n", "    return response;", "\n", "  ", "}", " catch ", "(", "err", ")", " ", "{", "\n", "    console.error", "(", "\"", "Error inserting documents:", "\"", ", err", ")", ";", "\n", "    throw err;", "\n", "  ", "}", "\n">>
        ELSE
          <<"  // Prepare document", "\n", "  const doc = ", "{", "\n">>
          \o (IF options.addIds
              THEN <<"    _id: ", "\"">> \o <<NewId>> \o <<"\"", ",", "\n">>
              ELSE <<>>)
          \o (IF options.addTimestamps
              THEN <<"    createdAt: ", "\"">> \o <<NewNow>> \o <<"\"", ",", "\n">>
                   \o <<"    updatedAt: ", "\"">> \o <<SameNow>> \o <<"\"", ",", "\n">>
              ELSE <<>>)
          \o couchFieldLines(item, <<"    ">>)
          \o <<"  ", "}", ";", "\n", "\n", "  try ", "{", "\n", "    const response = await db.insert", "(", "doc", ")", ";", "\n", "    console.log", "(", "\"", "Document inserted successfully:", "\"", ", response.id", ")", ";", "\n", "    return response;", "\n", "  ", "}", " catch ", "(", "err", ")", " ", "{", "\n", "    console.error", "(", "\"", "Error inserting document:", "\"", ", err", ")", ";", "\n", "    throw err;", "\n", "  ", "}", "\n">>)
    \o <<"}", "\n", "\n">>

\* a flattening that leaves every field where it is
couchKeepObject(obj, prefix) == entries(obj)

RECURSIVE couchFlattenObject(_, _)
couchFlattenObject(obj, prefix) ==
    LET es == entries(obj)
        newKey(i) == IF truthy(prefix) THEN prefix \o <<"_">> \o es[i].k ELSE es[i].k
        step[i \in 0..Len(es)] ==
            IF i = 0 THEN <<>>
            ELSE IF isPlainObject(es[i].v)
                 THEN assign(step[i - 1], couchFlattenObject(es[i].v, newKey(i)))
                 ELSE put(step[i - 1], newKey(i), es[i].v)
    IN step[Len(es)]

couchGenerateFlatDocuments(jsonData, options) ==
    LET dataArray == IF isArray(jsonData) THEN Elems(jsonData) ELSE <<jsonData>>
        \* dataArray[0], undefined when the array is empty
        item == IF Len(dataArray) > 0 THEN dataArray[1] ELSE Undefined
    IN
    <<"// Flat document structure", "\n", "// Function to add flat documents", "\n", "async function addFlatDocuments", "(", ")", " ", "{", "\n">>
    \o (IF Len(dataArray) > 1
        THEN
          <<"  // Prepare documents for bulk insert", "\n", "  const docs = ", "[", "\n">>
          \o concat([index \in 1..Len(dataArray) |->
          <<"    ", "{", "\n">>
          \o (IF options.addIds
              THEN <<"      _id: ", "\"">> \o <<NewId>> \o <<"\"", ",", "\n">>
              ELSE <<>>)
          \o (IF options.addTimestamps
              THEN <<"      createdAt: ", "\"">> \o <<NewNow>> \o <<"\"", ",", "\n">>
                   \o <<"      updatedAt: ", "\"">> \o <<SameNow>> \o <<"\"", ",", "\n">>
              ELSE <<>>)
          \o (IF entriesThrow(dataArray[index]) THEN <<TypeError>>
              ELSE couchFieldLines(Obj(couchFlattenObject(dataArray[index], <<>>)), <<"      ">>))
          \o <<"    ", "}">> \o comma(index < Len(dataArray)) \o <<"\n">>])
          \o <<"  ", "]", ";", "\n", "\n", "  try ", "{", "\n", "    const response = await db.bulk", "(", "{", " docs ", "}", ")", ";", "\n", "    console.log", "(", "\"", "Bulk insert successful:", "\"", ", response.length, ", "\"", "flat documents inserted", "\"", ")", ";", "\n", "    return response;", "\n", "  ", "}", " catch ", "(", "err", ")", " ", "{", "\n", "    console.error", "(", "\"", "Error inserting flat documents:", "\"", ", err", ")", ";", "\n", "    throw err;", "\n", "  ", "}", "\n">>
        ELSE
          <<"  // Prepare flat document", "\n", "  const doc = ", "{", "\n">>
          \o (IF options.addIds
              THEN <<"    _id: ", "\"">> \o <<NewId>> \o <<"\"", ",", "\n">>
              ELSE <<>>)
          \o (IF options.addTimestamps
              THEN <<"    createdAt: ", "\"">> \o <<NewNow>> \o <<"\"", ",", "\n">>
                   \o <<"    updatedAt: ", "\"">> \o <<SameNow>> \o <<"\"", ",", "\n">>
              ELSE <<>>)
          \o (IF entriesThrow(item) THEN <<TypeError>>
              ELSE couchFieldLines(Obj(couchFlattenObject(item, <<>>)), <<"    ">>))
          \o <<"  ", "}", ";", "\n", "\n", "  try ", "{", "\n", "    const response = await db.insert", "(", "doc", ")", ";", "\n", "    console.log", "(", "\"", "Flat document inserted successfully:", "\"", ", response.id", ")", ";", "\n", "    return response;", "\n", "  ", "}", " catch ", "(", "err", ")", " ", "{", "\n", "    console.error", "(", "\"", "Error inserting flat document:", "\"", ", err", ")", ";", "\n", "    throw err;", "\n", "  ", "}", "\n">>)
    \o <<"}", "\n", "\n">>

MainDocType == <<"m","a","i","n">>

RECURSIVE couchExtractReferencedDocTypes(_, _)
couchExtractReferencedDocTypes(items, docTypes) ==
    LET perEntry(types, e) ==
            LET singularKey == IF endsWith(e.k, <<"s">>) THEN dropLast(e.k) ELSE e.k
                c1 == IF isNonEmptyObject(e.v)
                      THEN pushAll(types, e.k, <<e.v>>) ELSE types
            IN IF isArrayOfObjects(e.v)
               THEN couchExtractReferencedDocTypes(
                        Elems(e.v), pushAll(c1, singularKey, Elems(e.v)))
               ELSE c1
        perItem(types, item) ==
            IF has(types, <<TypeError>>) THEN types
            ELSE IF entriesThrow(item) THEN put(types, <<TypeError>>, <<>>)
            ELSE LET es == entries(item)
                     walk[j \in 0..Len(es)] ==
                        IF j = 0 THEN types
                        ELSE IF has(walk[j - 1], <<TypeError>>) THEN walk[j - 1]
                        ELSE perEntry(walk[j - 1], es[j])
                 IN walk[Len(es)]
        all[i \in 0..Len(items)] ==
            IF i = 0 THEN docTypes ELSE perItem(all[i - 1], items[i])
    IN all[Len(items)]

\* the document types generateReferencedDocuments builds; for an array root
\* the 'main' type IS the caller's array
couchDocTypes(jsonData) ==
    IF isArray(jsonData)
    THEN couchExtractReferencedDocTypes(
             Elems(jsonData), <<Entry(MainDocType, Elems(jsonData))>>)
    ELSE couchExtractReferencedDocTypes(
             <<jsonData>>, <<Entry(MainDocType, <<jsonData>>)>>)

couchReferencedFieldLines(item) ==
    IF entriesThrow(item) THEN <<TypeError>>
    ELSE LET es == entries(item) IN
         concat([i \in 1..Len(es) |->
            IF isNonEmptyObject(es[i].v)
            THEN <<"      ">> \o es[i].k \o <<"Id: ", "\"">> \o es[i].k \o <<"_">> \o <<NewId>> \o <<"\"", ",", "\n">>
            ELSE <<"      ">> \o es[i].k \o <<": ">> \o couchValueToString(es[i].v)
                 \o comma(i < Len(es)) \o <<"\n">>])

couchGenerateReferencedDocuments(jsonData, options) ==
    LET docTypes == couchDocTypes(jsonData) IN
    IF has(docTypes, <<TypeError>>) THEN <<TypeError>>
    ELSE
    <<"// Referenced document structure", "\n", "// Function to add documents with references", "\n", "async function addReferencedDocuments", "(", ")", " ", "{", "\n">>
    \o concat([c \in 1..Len(docTypes) |->
        LET docType == docTypes[c].k
            items == docTypes[c].v
        IN <<"  // ">> \o docType \o <<" documents", "\n", "  const ">> \o docType \o <<"Docs = ", "[", "\n">>
           \o concat([index \in 1..Len(items) |->
                 <<"    ", "{", "\n">>
                 \o <<"      _id: ", "\"">> \o docType \o <<"_">> \o <<NewId>> \o <<"\"", ",", "\n", "      type: ", "\"">> \o docType \o <<"\"", ",", "\n">>
                 \o (IF options.addTimestamps
                     THEN <<"      createdAt: ", "\"">> \o <<NewNow>> \o <<"\"", ",", "\n">>
                          \o <<"      updatedAt: ", "\"">> \o <<SameNow>> \o <<"\"", ",", "\n">>
                     ELSE <<>>)
                 \o couchReferencedFieldLines(items[index])
                 \o <<"    ", "}">> \o comma(index < Len(items)) \o <<"\n">>])
           \o <<"  ", "]", ";", "\n", "\n">>])
    \o <<"  // Combine all documents for bulk insert", "\n", "  const allDocs = ", "[", "\n">>
    \o <<"    ...">>
    \o join([c \in 1..Len(docTypes) |-> docTypes[c].k], <<"Docs,", "\n", "    ...">>)
    \o <<"\n">>
    \o <<"  ", "]", ";", "\n", "\n", "  try ", "{", "\n", "    const response = await db.bulk", "(", "{", " docs: allDocs ", "}", ")", ";", "\n", "    console.log", "(", "\"", "Bulk insert successful:", "\"", ", response.length, ", "\"", "documents with references inserted", "\"", ")", ";", "\n", "    return response;", "\n", "  ", "}", " catch ", "(", "err", ")", " ", "{", "\n", "    console.error", "(", "\"", "Error inserting documents with references:", "\"", ", err", ")", ";", "\n", "    throw err;", "\n", "  ", "}", "\n", "}", "\n", "\n">>

couchGenerateArrayBasedDocuments(jsonData, options) ==
    LET dataArray == IF isArray(jsonData) THEN Elems(jsonData) ELSE <<jsonData>> IN
    <<"// Array-based document structure", "\n", "// Function to add array-based document", "\n", "async function addArrayBasedDocument", "(", ")", " ", "{", "\n", "  // Prepare document with items array", "\n", "  const doc = ", "{", "\n">>
    \o (IF options.addIds
        THEN <<"    _id: ", "\"">> \o <<NewId>> \o <<"\"", ",", "\n">>
        ELSE <<>>)
    \o (IF options.addTimestamps
        THEN <<"    createdAt: ", "\"">> \o <<NewNow>> \o <<"\"", ",", "\n">>
             \o <<"    updatedAt: ", "\"">> \o <<SameNow>> \o <<"\"", ",", "\n">>
        ELSE <<>>)
    \o <<"    items: ", "[", "\n">>
    \o concat([index \in 1..Len(dataArray) |->
          <<"      ", "{", "\n">>
          \o (IF options.addIds
              THEN <<"        id: ", "\"">> \o <<NewId>> \o <<"\"", ",", "\n">>
              ELSE <<>>)
          \o couchFieldLines(dataArray[index], <<"        ">>)
          \o <<"      ", "}">> \o comma(index < Len(dataArray)) \o <<"\n">>])
    \o <<"    ", "]", "\n", "  ", "}", ";", "\n", "\n", "  try ", "{", "\n", "    const response = await db.insert", "(", "doc", ")", ";", "\n", "    console.log", "(", "\"", "Array-based document inserted successfully:", "\"", ", response.id", ")", ";", "\n", "    return response;", "\n", "  ", "}", " catch ", "(", "err", ")", " ", "{", "\n", "    console.error", "(", "\"", "Error inserting array-based document:", "\"", ", err", ")", ";", "\n", "    throw err;", "\n", "  ", "}", "\n", "}", "\n", "\n">>

couchIndexFields(jsonData) ==
    IF isArray(jsonData) /\ Len(jsonData.c) > 0
    THEN LET es == entries(jsonData.c[1].v) IN
         concat([i \in 1..Len(es) |->
            LET key == es[i].k
                value == es[i].v
                lower == toLowerCase(key)
            IN (IF includes(lower, <<"i","d">>) \/ endsWith(lower, <<"_","i","d">>)
                THEN <<key>> ELSE <<>>)
               \o (IF \/ (value.t = "str" /\ datePattern(value.s))
                      \/ value.t = "date"
                      \/ includes(lower, <<"d","a","t","e">>)
                      \/ includes(lower, <<"t","i","m","e">>)
                   THEN <<key>> ELSE <<>>)
               \o (IF \/ includes(lower, <<"n","a","m","e">>)
                      \/ includes(lower, <<"e","m","a","i","l">>)
                      \/ includes(lower, <<"u","s","e","r","n","a","m","e">>)
                   THEN <<key>> ELSE <<>>)])
    ELSE <<>>

couchGenerateIndexSuggestions(jsonData) ==
    IF indexSampleThrows(jsonData) THEN <<TypeError>>
    ELSE
    LET indexFields == couchIndexFields(jsonData) IN
    <<"// CouchDB Index Suggestions", "\n", "// Function to create indexes", "\n", "async function createIndexes", "(", ")", " ", "{", "\n">>
    \o (IF Len(indexFields) > 0
        THEN <<"  // Create type index for document types", "\n", "  try ", "{", "\n", "    await db.createIndex", "(", "{", "\n", "      index: ", "{", " fields: ", "[", "'type'", "]", " ", "}", ",", "\n", "      name: 'type-index'", "\n", "    ", "}", ")", ";", "\n", "    console.log", "(", "\"", "Type index created successfully", "\"", ")", ";", "\n", "  ", "}", " catch ", "(", "err", ")", " ", "{", "\n", "    console.error", "(", "\"", "Error creating type index:", "\"", ", err", ")", ";", "\n", "  ", "}", "\n", "\n">>
             \o concat([f \in 1..Len(indexFields) |->
                   <<"  // Create index for ">> \o indexFields[f] \o <<"\n", "  try ", "{", "\n", "    await db.createIndex", "(", "{", "\n", "      index: ", "{", " fields: ", "[", "'">> \o indexFields[f] \o <<"'", "]", " ", "}", ",", "\n", "      name: '">> \o indexFields[f] \o <<"-index'", "\n", "    ", "}", ")", ";", "\n", "    console.log", "(", "\"">> \o indexFields[f] \o <<" index created successfully", "\"", ")", ";", "\n", "  ", "}", " catch ", "(", "err", ")", " ", "{", "\n", "    console.error", "(", "\"", "Error creating ">> \o indexFields[f] \o <<" index:", "\"", ", err", ")", ";", "\n", "  ", "}", "\n", "\n">>])
             \o (IF Len(indexFields) > 1
                 THEN <<"  // Create compound index", "\n", "  try ", "{", "\n", "    await db.createIndex", "(", "{", "\n", "      index: ", "{", " fields: ", "[">> \o join([f \in 1..2 |-> <<"'">> \o firstTwo(indexFields)[f] \o <<"'">>], <<", ">>) \o <<"]", " ", "}", ",", "\n", "      name: 'compound-index'", "\n", "    ", "}", ")", ";", "\n", "    console.log", "(", "\"", "Compound index created successfully", "\"", ")", ";", "\n", "  ", "}", " catch ", "(", "err", ")", " ", "{", "\n", "    console.error", "(", "\"", "Error creating compound index:", "\"", ", err", ")", ";", "\n", "  ", "}", "\n">>
                 ELSE <<>>)
        ELSE <<"  console.log", "(", "\"", "No obvious index candidates found in this data structure", "\"", ")", ";", "\n">>)
    \o <<"}", "\n", "\n">>

generateCouchDBDocuments(jsonData, structure, options) ==
    LET dbName == IF truthy(options.dbName) THEN options.dbName ELSE DefaultDbName IN
    <<"// CouchDB Code", "\n", "// Requires nano ", "(", "CouchDB client", ")", " to be installed", "\n", "\n", "// Import nano", "\n", "const nano = require", "(", "\"", "nano", "\"", ")", "(", "\"", "http://localhost:5984", "\"", ")", ";", "\n", "\n">>
    \o <<"// Create database if it doesn't exist", "\n", "async function createDatabase", "(", ")", " ", "{", "\n", "  try ", "{", "\n", "    await nano.db.create", "(", "\"">> \o dbName \o <<"\"", ")", ";", "\n", "    console.log", "(", "\"", "Database '">> \o dbName \o <<"' created", "\"", ")", ";", "\n", "  ", "}", " catch ", "(", "err", ")", " ", "{", "\n", "    if ", "(", "err.statusCode === 412", ")", " ", "{", "\n", "      console.log", "(", "\"", "Database '">> \o dbName \o <<"' already exists", "\"", ")", ";", "\n", "    ", "}", " else ", "{", "\n", "      console.error", "(", "\"", "Error creating database:", "\"", ", err", ")", ";", "\n", "    ", "}", "\n", "  ", "}", "\n", "}", "\n", "\n">>
    \o <<"// Get database reference", "\n", "const db = nano.use", "(", "\"">> \o dbName \o <<"\"", ")", ";", "\n", "\n">>
    \o (CASE structure = "nested" -> couchGenerateNestedDocuments(jsonData, options)
          [] structure = "flat" -> couchGenerateFlatDocuments(jsonData, options)
          [] structure = "references" -> couchGenerateReferencedDocuments(jsonData, options)
          [] structure = "arrays" -> couchGenerateArrayBasedDocuments(jsonData, options)
          [] OTHER -> couchGenerateNestedDocuments(jsonData, options))
    \o (IF options.addIndexes THEN couchGenerateIndexSuggestions(jsonData) ELSE <<>>)
    \o <<"// Main function to execute all operations", "\n", "async function main", "(", ")", " ", "{", "\n", "  await createDatabase", "(", ")", ";", "\n">>
    \o (CASE structure = "nested" -> <<"  await addNestedDocuments", "(", ")", ";", "\n">>
          [] structure = "flat" -> <<"  await addFlatDocuments", "(", ")", ";", "\n">>
          [] structure = "references" -> <<"  await addReferencedDocuments", "(", ")", ";", "\n">>
          [] structure = "arrays" -> <<"  await addArrayBasedDocument", "(", ")", ";", "\n">>
          [] OTHER -> <<"  await addNestedDocuments", "(", ")", ";", "\n">>)
    \o (IF options.addIndexes THEN <<"  await createIndexes", "(", ")", ";", "\n">> ELSE <<>>)
    \o <<"}", "\n", "\n", "// Run the main function", "\n", "main", "(", ")", ".catch", "(", "err => console.error", "(", "\"", "Error:", "\"", ", err", ")", ")", ";", "\n">>

couchDocumentAfter(jsonData, structure) ==
    IF structure = "references" /\ isArray(jsonData)
    THEN Arr(get(couchDocTypes(jsonData), MainDocType))
    ELSE jsonData

(***************************************************************************)
(* Resolution of the placeholders: the k-th call of generateId yields the  *)
(* k-th draw, the k-th reading of the clock yields now + (k - 1) * tick.   *)
(***************************************************************************)
\* generateId(short), the k-th draw spelled as one token
generateId(short, k) == ToString(<<IF short THEN "id" ELSE "oid", k>>)

Resolve(text, now, tick, cycle) ==
    LET idCalls == {j \in 1..Len(text) : text[j] \in {NewId, NewOid}}
        clock == {j \in 1..Len(text) : text[j] = NewNow}
        draws(i) == {j \in idCalls : j <= i}
        last(i) == CHOOSE j \in draws(i) : \A k \in draws(i) : k <= j
        reads(i) == Cardinality({j \in clock : j <= i})
    IN [i \in 1..Len(text) |->
            IF text[i] \in {NewId, NewOid, SameId}
            THEN generateId(text[last(i)] = NewId, ((Cardinality(draws(i)) - 1) % cycle) + 1)
            ELSE IF text[i] \in {NewNow, SameNow}
            THEN toISOString(now + (reads(i) - 1) * tick)[1]
            ELSE text[i]]

\* the generator met Object.entries / Object.keys of null or undefined
throwsTypeError(text) == \E i \in 1..Len(text) : text[i] = TypeError

(***************************************************************************)
(* generateNoSQL (nosqlGenerator.js): validation, dispatch on the backend, *)
(* the generator state.                                                    *)
(***************************************************************************)
\* !jsonData
falsy(v) ==
    \/ v.t \in {"null", "undefined"}
    \/ (v.t = "num" /\ v.n = 0)
    \/ (v.t = "bool" /\ v.n = 0)
    \/ (v.t = "str" /\ Len(v.s) = 0)

DbTypes == {"mongodb", "firebase", "dynamodb", "couchdb"}

Structures == {"nested", "flat", "references", "arrays"}

NoDataMessage == "No JSON data provided"

NoDbTypeMessage == "No database type selected"

NoStructureMessage == "No document structure selected"

UnsupportedMessage == "Unsupported database type"

TypeErrorMessage == "TypeError: Cannot convert undefined or null to object"

\* a dispatcher whose generators refuse a structure they do not know
generateKnownStructure(jsonData, dbType, structure, options) ==
    IF structure \notin Structures THEN <<TypeError>>
    ELSE CASE dbType = "mongodb" -> generateMongoDBDocuments(jsonData, structure, options)
           [] dbType = "firebase" -> generateFirebaseDocuments(jsonData, structure, options)
           [] dbType = "dynamodb" -> generateDynamoDBDocuments(jsonData, structure, options)
           [] dbType = "couchdb" -> generateCouchDBDocuments(jsonData, structure, options)

\* the text the backend's generator builds, placeholders unresolved
generate(jsonData, dbType, structure, options) ==
    CASE dbType = "mongodb" -> generateMongoDBDocuments(jsonData, structure, options)
      [] dbType = "firebase" -> generateFirebaseDocuments(jsonData, structure, options)
      [] dbType = "dynamodb" -> generateDynamoDBDocuments(jsonData, structure, options)
      [] dbType = "couchdb" -> generateCouchDBDocuments(jsonData, structure, options)

\* the caller's document when the backend's generator is done with it
documentAfter(jsonData, dbType, structure) ==
    CASE dbType = "mongodb" -> mongoDocumentAfter(jsonData, structure)
      [] dbType = "firebase" -> firebaseDocumentAfter(jsonData, structure)
      [] dbType = "dynamodb" -> dynamoDocumentAfter(jsonData, structure)
      [] dbType = "couchdb" -> couchDocumentAfter(jsonData, structure)

\* what a call of generateNoSQL comes to: it returned data, or threw message;
\* document is the argument as the call leaves it
Returned(data, document) ==
    [outcome |-> "returned", message |-> "", data |-> data, document |-> document]

Threw(message, document) ==
    [outcome |-> "threw", message |-> message, data |-> <<>>, document |-> document]

\* the end of the try block: the generator's text is the result, unless
\* the generator threw on the way
Finish(text, document, now, tick, cycle) ==
    IF throwsTypeError(text)
    THEN Threw(TypeErrorMessage, document)
    ELSE Returned(Resolve(text, now, tick, cycle), document)

generateNoSQL(jsonData, dbType, structure, options, now, tick, cycle) ==
    IF falsy(jsonData) THEN Threw(NoDataMessage, jsonData)
    ELSE IF dbType = "" THEN Threw(NoDbTypeMessage, jsonData)
    ELSE IF structure = "" THEN Threw(NoStructureMessage, jsonData)
    ELSE IF dbType \notin DbTypes THEN Threw(UnsupportedMessage, jsonData)
    ELSE Finish(generate(jsonData, dbType, structure, options),
                documentAfter(jsonData, dbType, structure), now, tick, cycle)

(***************************************************************************)
(* The documents the formatter hands to the generator.                     *)
(***************************************************************************)
\* {}
EmptyObject ==
    Obj(<<>>)

\* []
EmptyArray ==
    Arr(<<>>)

\* "hello"
Hello ==
    Str(<<"h","e","l","l","o">>)

\* 42
FortyTwo ==
    Num(42)

\* {"a": {"b": {"c": 7}}, "t": ["x", [8, false]], "n": null}
Deep ==
    Obj(<<Entry(<<"a">>, Obj(<<Entry(<<"b">>, Obj(<<Entry(<<"c">>, Num(7))>>))>>)),
          Entry(<<"t">>, Arr(<<Str(<<"x">>), Arr(<<Num(8), Bool(FALSE)>>)>>)),
          Entry(<<"n">>, Null)>>)

\* {"p": {"x": 1}, "qs": [{"y": 2}], "z": "w"}
Order ==
    Obj(<<Entry(<<"p">>, Obj(<<Entry(<<"x">>, Num(1))>>)), Entry(<<"q","s">>, Arr(<<Obj(<<Entry(<<"y">>, Num(2))>>)>>)), Entry(<<"z">>, Str(<<"w">>))>>)

\* [{"items": [{"a": 1}]}]
ItemsRoot ==
    Arr(<<Obj(<<Entry(<<"i","t","e","m","s">>, Arr(<<Obj(<<Entry(<<"a">>, Num(1))>>)>>))>>)>>)

\* [{"main": {"a": 1}}]
MainRoot ==
    Arr(<<Obj(<<Entry(<<"m","a","i","n">>, Obj(<<Entry(<<"a">>, Num(1))>>))>>)>>)

\* {"user_id": 1, "email": "a@b.com", "created_at": "2024-01-01", "notes": "free text"}
Sample ==
    Obj(<<Entry(<<"u","s","e","r","_","i","d">>, Num(1)), Entry(<<"e","m","a","i","l">>, Str(<<"a","@","b",".","c","o","m">>)), Entry(<<"c","r","e","a","t","e","d","_","a","t">>, Str(<<"2","0","2","4","-","0","1","-","0","1">>)), Entry(<<"n","o","t","e","s">>, Str(<<"f","r","e","e"," ","t","e","x","t">>))>>)

\* [{"id": 1, "name": "a\"b"}, {"id": 2}]
Pair ==
    Arr(<<Obj(<<Entry(<<"i","d">>, Num(1)), Entry(<<"n","a","m","e">>, Str(<<"a","\"","b">>))>>), Obj(<<Entry(<<"i","d">>, Num(2))>>)>>)

\* [Sample]
Samples == Arr(<<Sample>>)

\* {"name": "Ada", "address": {"city": "London"}}
Ada ==
    Obj(<<Entry(<<"n","a","m","e">>, Str(<<"A","d","a">>)),
          Entry(<<"a","d","d","r","e","s","s">>,
                Obj(<<Entry(<<"c","i","t","y">>, Str(<<"L","o","n","d","o","n">>))>>))>>)

\* [{"update_id": 3, "k": true}]: a key in which both 'id' and 'date' occur
Stamped ==
    Arr(<<Obj(<<Entry(<<"u","p","d","a","t","e","_","i","d">>, Num(3)),
                Entry(<<"k">>, Bool(TRUE))>>)>>)

Documents ==
    {EmptyObject, EmptyArray, Hello, FortyTwo, Deep, Order, ItemsRoot, MainRoot,
     Sample, Samples, Ada, Pair, Stamped, Null}

\* the backend and structure a caller may name, a name outside the known ones included
DbTypeChoices == DbTypes \cup {"redis"}

StructureChoices == Structures \cup {"graph"}

\* the options handleGenerateNoSQL reads from the form: three checkboxes,
\* no dbName and no sortKey
OptionChoices ==
    {[addIds |-> i, addTimestamps |-> t, addIndexes |-> x, dbName |-> <<>>, sortKey |-> <<>>] :
        i \in BOOLEAN, t \in BOOLEAN, x \in BOOLEAN}

\* calls of generateNoSQL in one run
MaxCalls == 1

\* an ID source that never hands out a value twice in one call: it repeats
\* itself only after NoRepeat draws
NoRepeat == 1000

\* the instant of the first reading of the clock
Epoch == 0

(***************************************************************************)
(* The application.                                                        *)
(***************************************************************************)
VARIABLES
    appState,        \* app.js: jsonData, nosqlData
    generatorState,  \* nosqlGenerator.js: lastInput, lastOutput, lastOptions
    lastCall,        \* the last call of generateNoSQL: its arguments as passed, its outcome
    calls,           \* calls of generateNoSQL so far
    history,         \* the calls of generateNoSQL before the last one, oldest first
    notificationState,  \* notifications.js: notifications, initialized, maxNotifications
    timers,          \* the browser's timers: the next handle, the timeouts pending
    lastNotification \* the function of notifications.js that returned last

vars == <<appState, generatorState, lastCall, calls, history,
          notificationState, timers, lastNotification>>

\* the notification module and what it tracks
notifyVars == <<notificationState, timers, lastNotification>>

\* maxNotifications: 3
DefaultMaxNotifications == 3

\* the module state of notifications.js when it is loaded, and no timer set
NoNotifications ==
    /\ notificationState = [notifications |-> <<>>, initialized |-> FALSE,
                            maxNotifications |-> DefaultMaxNotifications]
    /\ timers = [next |-> 1, pending |-> {}]
    /\ lastNotification = "none"

NoOptions == [addIds |-> FALSE, addTimestamps |-> FALSE, addIndexes |-> FALSE,
              dbName |-> <<>>, sortKey |-> <<>>]

NoCall == [dbType |-> "", structure |-> "", options |-> NoOptions, jsonData |-> Null,
           tick |-> 0, cycle |-> NoRepeat, outcome |-> "none", message |-> "",
           data |-> <<>>]

Init ==
    /\ appState = [jsonData |-> Null, nosqlData |-> <<>>]
    /\ generatorState = [lastInput |-> Null, lastOutput |-> <<>>, lastOptions |-> <<>>]
    /\ lastCall = NoCall
    /\ calls = 0
    /\ history = <<>>
    /\ NoNotifications

\* handleFormatJson: the parsed document becomes the application's document
handleFormatJson(data) ==
    /\ calls < MaxCalls
    /\ appState' = [appState EXCEPT !.jsonData = data]
    /\ UNCHANGED <<generatorState, lastCall, calls, history>>
    /\ UNCHANGED notifyVars

handleClearJson ==
    /\ calls < MaxCalls
    /\ appState' = [appState EXCEPT !.jsonData = Null]
    /\ UNCHANGED <<generatorState, lastCall, calls, history>>
    /\ UNCHANGED notifyVars

\* what generateNoSQL and handleGenerateNoSQL leave behind for a call that
\* came to r.  The document is passed by reference: what the generator
\* appended to it stays.
Generated(dbType, structure, options, tick, cycle, r) ==
    /\ appState' = [jsonData |-> r.document,
                    nosqlData |-> IF r.outcome = "returned" THEN r.data
                                  ELSE appState.nosqlData]
    /\ generatorState' =
           [lastInput |-> r.document,
            lastOutput |-> IF r.outcome = "returned" THEN r.data
                           ELSE generatorState.lastOutput,
            lastOptions |-> <<[options |-> options, structure |-> structure]>>]
    /\ lastCall' = [dbType |-> dbType, structure |-> structure, options |-> options,
                    jsonData |-> appState.jsonData, tick |-> tick, cycle |-> cycle,
                    outcome |-> r.outcome,
                    message |-> r.message, data |-> r.data]
    /\ calls' = calls + 1
    /\ history' = IF lastCall.outcome = "none" THEN history ELSE Append(history, lastCall)
    /\ UNCHANGED notifyVars

\* handleGenerateNoSQL: generateNoSQL on the application's document
handleGenerateNoSQL(dbType, structure, options, tick, cycle) ==
    /\ ~falsy(appState.jsonData)
    /\ Generated(dbType, structure, options, tick, cycle,
                 generateNoSQL(appState.jsonData, dbType, structure, options, Epoch, tick,
                               cycle))

GenerateNoSQL ==
    \E dbType \in DbTypeChoices, structure \in StructureChoices, options \in OptionChoices :
        \E tick \in (IF options.addTimestamps THEN {0, 1} ELSE {0}) :
            calls < MaxCalls /\ handleGenerateNoSQL(dbType, structure, options, tick, NoRepeat)

FormatJson == \E data \in Documents : handleFormatJson(data)

Next ==
    \/ FormatJson
    \/ handleClearJson
    \/ GenerateNoSQL

Spec == Init /\ [][Next]_vars

(***************************************************************************)
(* The DynamoDB generator on roots of n documents, n up to MaxDocs: the    *)
(* application holds such a root, and generates for the DynamoDB backend.  *)
(***************************************************************************)
MaxDocs == 27

\* [{"v": 1}, ..., {"v": n}]
Batch(n) == Arr([i \in 1..n |-> Obj(<<Entry(<<"v">>, Num(i))>>)])

InitBatch ==
    /\ \E n \in 0..MaxDocs : appState = [jsonData |-> Batch(n), nosqlData |-> <<>>]
    /\ generatorState = [lastInput |-> Null, lastOutput |-> <<>>, lastOptions |-> <<>>]
    /\ lastCall = NoCall
    /\ calls = 0
    /\ history = <<>>
    /\ NoNotifications

GenerateDynamoDB ==
    \E structure \in StructureChoices, options \in OptionChoices :
        calls < MaxCalls /\ handleGenerateNoSQL("dynamodb", structure, options, 0, NoRepeat)

NextBatch == GenerateDynamoDB

SpecBatch == InitBatch /\ [][NextBatch]_vars

(***************************************************************************)
(* Repeated generation: the application holds one document and generates   *)
(* for it again and again, up to MaxRepeat times, without loading it anew; *)
(* every call is handed the same object.                                   *)
(***************************************************************************)
MaxRepeat == 3

RepeatDocuments == {ItemsRoot, Pair}

RepeatDbTypes == {"mongodb", "couchdb", "redis"}

RepeatStructures == {"nested", "references"}

RepeatOptions ==
    {NoOptions, [NoOptions EXCEPT !.addIds = TRUE, !.addTimestamps = TRUE]}

InitRepeat ==
    /\ \E data \in RepeatDocuments : appState = [jsonData |-> data, nosqlData |-> <<>>]
    /\ generatorState = [lastInput |-> Null, lastOutput |-> <<>>, lastOptions |-> <<>>]
    /\ lastCall = NoCall
    /\ calls = 0
    /\ history = <<>>
    /\ NoNotifications

GenerateAgain ==
    \E dbType \in RepeatDbTypes, structure \in RepeatStructures, options \in RepeatOptions :
        \E tick \in (IF options.addTimestamps THEN {0, 1} ELSE {0}) :
            calls < MaxRepeat /\ handleGenerateNoSQL(dbType, structure, options, tick, NoRepeat)

\* what a call of generateNoSQL from inside the generator module leaves
\* behind: as Generated, but the application's copy of the output is not
\* written.  lastInput is the application's document, the same object.
Regenerated(dbType, structure, options, tick, r) ==
    /\ appState' = [appState EXCEPT !.jsonData = r.document]
    /\ generatorState' =
           [lastInput |-> r.document,
            lastOutput |-> IF r.outcome = "returned" THEN r.data
                           ELSE generatorState.lastOutput,
            lastOptions |-> <<[options |-> options, structure |-> structure]>>]
    /\ lastCall' = [dbType |-> dbType, structure |-> structure, options |-> options,
                    jsonData |-> generatorState.lastInput, tick |-> tick,
                    cycle |-> NoRepeat, outcome |-> r.outcome,
                    message |-> r.message, data |-> r.data]
    /\ calls' = calls + 1
    /\ history' = IF lastCall.outcome = "none" THEN history ELSE Append(history, lastCall)
    /\ UNCHANGED notifyVars

\* handleDatabaseTypeChange: with an input and options cached, generateNoSQL
\* on the cached input for the backend chosen, with the cached structure
\* and options
handleDatabaseTypeChange(dbType, tick) ==
    /\ ~falsy(generatorState.lastInput)
    /\ Len(generatorState.lastOptions) > 0
    /\ Regenerated(dbType, generatorState.lastOptions[1].structure,
                   generatorState.lastOptions[1].options, tick,
                   generateNoSQL(generatorState.lastInput, dbType,
                                 generatorState.lastOptions[1].structure,
                                 generatorState.lastOptions[1].options, Epoch, tick,
                                 NoRepeat))

DatabaseTypeChange ==
    \E dbType \in RepeatDbTypes, tick \in {0, 1} :
        /\ calls < MaxRepeat
        /\ Len(generatorState.lastOptions) > 0
        /\ (tick = 1 => generatorState.lastOptions[1].options.addTimestamps)
        /\ handleDatabaseTypeChange(dbType, tick)

NextRepeat ==
    \/ GenerateAgain
    \/ DatabaseTypeChange

SpecRepeat == InitRepeat /\ [][NextRepeat]_vars

(***************************************************************************)
(* Generation with identifiers over an ID source that may repeat itself:   *)
(* generateId draws from Math.random and remembers nothing of what it      *)
(* handed out, so a source of period cycle hands the same identifier out   *)
(* again after cycle draws.                                                *)
(***************************************************************************)
IdDocuments == {Pair, Order, ItemsRoot, Sample, Ada, Deep}

IdCycles == {1, 2, NoRepeat}

IdOptions == {[NoOptions EXCEPT !.addIds = TRUE]}

InitIds ==
    /\ \E data \in IdDocuments : appState = [jsonData |-> data, nosqlData |-> <<>>]
    /\ generatorState = [lastInput |-> Null, lastOutput |-> <<>>, lastOptions |-> <<>>]
    /\ lastCall = NoCall
    /\ calls = 0
    /\ history = <<>>
    /\ NoNotifications

GenerateWithIds ==
    \E dbType \in DbTypes, structure \in Structures, options \in IdOptions :
        \E cycle \in IdCycles :
            calls < MaxCalls /\ handleGenerateNoSQL(dbType, structure, options, 0, cycle)

NextIds == GenerateWithIds

SpecIds == InitIds /\ [][NextIds]_vars

(***************************************************************************)
(* Generation from documents that hold Date objects: generateNoSQL is      *)
(* exported, and a caller that builds its document itself may put a Date   *)
(* at the top level, into an array or into a nested object.                *)
(***************************************************************************)
Instants == {0, 1}

DateDocuments ==
    UNION {{Obj(<<Entry(<<"a","t">>, DateVal(x))>>),
            Obj(<<Entry(<<"l","o","g">>, Arr(<<DateVal(x)>>))>>),
            Obj(<<Entry(<<"m","e","t","a">>, Obj(<<Entry(<<"a","t">>, DateVal(x))>>))>>)}
           : x \in Instants}

InitDates ==
    /\ \E data \in DateDocuments : appState = [jsonData |-> data, nosqlData |-> <<>>]
    /\ generatorState = [lastInput |-> Null, lastOutput |-> <<>>, lastOptions |-> <<>>]
    /\ lastCall = NoCall
    /\ calls = 0
    /\ history = <<>>
    /\ NoNotifications

GenerateFromDates ==
    \E dbType \in DbTypes, structure \in Structures, options \in RepeatOptions :
        calls < MaxCalls /\ handleGenerateNoSQL(dbType, structure, options, 0, NoRepeat)

NextDates == GenerateFromDates

SpecDates == InitDates /\ [][NextDates]_vars

(***************************************************************************)
(* Generation from documents in which a top-level key already holds the    *)
(* separator of the flattened keys: {"a.b": 1, "a": {"b": 2}} and          *)
(* {"a_b": 1, "a": {"b": 2}}, in both orders of the two fields.            *)
(***************************************************************************)
Clash(separator) ==
    Obj(<<Entry(<<"a">> \o separator \o <<"b">>, Num(1)),
          Entry(<<"a">>, Obj(<<Entry(<<"b">>, Num(2))>>))>>)

ClashAfter(separator) ==
    Obj(<<Entry(<<"a">>, Obj(<<Entry(<<"b">>, Num(2))>>)),
          Entry(<<"a">> \o separator \o <<"b">>, Num(1))>>)

ClashDocuments ==
    {Clash(<<".">>), Clash(<<"_">>), ClashAfter(<<".">>), ClashAfter(<<"_">>), Ada}

InitClash ==
    /\ \E data \in ClashDocuments : appState = [jsonData |-> data, nosqlData |-> <<>>]
    /\ generatorState = [lastInput |-> Null, lastOutput |-> <<>>, lastOptions |-> <<>>]
    /\ lastCall = NoCall
    /\ calls = 0
    /\ history = <<>>
    /\ NoNotifications

GenerateFromClash ==
    \E dbType \in DbTypes, structure \in Structures, options \in RepeatOptions :
        calls < MaxCalls /\ handleGenerateNoSQL(dbType, structure, options, 0, NoRepeat)

NextClash == GenerateFromClash

SpecClash == InitClash /\ [][NextClash]_vars

(***************************************************************************)
(* The notification module (notifications.js): the list of the             *)
(* notifications shown, the limit on it, and the auto-dismiss timeouts.    *)
(* An identifier is notification-<Date.now()>-<a random number below       *)
(* 1000>: two notifications may get the same one.  A notification is       *)
(* [id, timeoutId], timeoutId 0 while none is set; a pending timeout is    *)
(* [handle, id], the id being the one its callback dismisses.  The module  *)
(* is driven here by its exported functions; the handlers of app.js above  *)
(* are followed in what they do to the document and the generator, the     *)
(* notifications they show are calls of showNotification like any other.   *)
(***************************************************************************)
\* calls of showNotification in one run
MaxShown == 4

\* the identifiers Date.now() and Math.random() may come to
MaxIds == 3

NotificationIds == 1..MaxIds

\* the values setMaxNotifications is called with; 0 is refused
MaxChoices == 0..DefaultMaxNotifications

\* findIndex(n => n.id === id), 0 for -1
findIndex(ns, id) ==
    IF \E i \in 1..Len(ns) : ns[i].id = id
    THEN CHOOSE i \in 1..Len(ns) : ns[i].id = id /\ \A j \in 1..(i - 1) : ns[j].id # id
    ELSE 0

\* splice(index, 1)
splice(ns, index) ==
    [i \in 1..(Len(ns) - 1) |-> IF i < index THEN ns[i] ELSE ns[i + 1]]

\* dismissNotification on the list ns with the timeouts pending: the first
\* notification of that id leaves the list and its timeout is cleared
dismiss(ns, pending, id) ==
    IF findIndex(ns, id) = 0 THEN [notifications |-> ns, pending |-> pending]
    ELSE [notifications |-> splice(ns, findIndex(ns, id)),
          pending |-> {t \in pending : t.handle # ns[findIndex(ns, id)].timeoutId}]

\* dismissNotification for every notification of the copy, in order
RECURSIVE dismissEach(_, _, _)
dismissEach(copy, ns, pending) ==
    IF Len(copy) = 0 THEN [notifications |-> ns, pending |-> pending]
    ELSE dismissEach(Tail(copy), dismiss(ns, pending, Head(copy).id).notifications,
                     dismiss(ns, pending, Head(copy).id).pending)

\* the list when the new notification is pushed and, with the list over the
\* limit, the oldest one dismissed
limited(ns, pending, id, max) ==
    IF Len(ns) + 1 > max
    THEN dismiss(Append(ns, [id |-> id, timeoutId |-> 0]), pending,
                 Append(ns, [id |-> id, timeoutId |-> 0])[1].id)
    ELSE [notifications |-> Append(ns, [id |-> id, timeoutId |-> 0]), pending |-> pending]

\* the timeout handle is written into the first notification of that id
withTimeout(ns, id, handle) ==
    [i \in 1..Len(ns) |->
        IF i = findIndex(ns, id) THEN [ns[i] EXCEPT !.timeoutId = handle] ELSE ns[i]]

showNotification(id) ==
    /\ timers.next <= MaxShown
    /\ notificationState' =
           [notifications |->
                withTimeout(limited(notificationState.notifications, timers.pending, id,
                                    notificationState.maxNotifications).notifications,
                            id, timers.next),
            initialized |-> TRUE,
            maxNotifications |-> notificationState.maxNotifications]
    /\ timers' =
           [next |-> timers.next + 1,
            pending |-> limited(notificationState.notifications, timers.pending, id,
                                notificationState.maxNotifications).pending
                        \cup {[handle |-> timers.next, id |-> id]}]
    /\ lastNotification' = "showNotification"
    /\ UNCHANGED <<appState, generatorState, lastCall, calls, history>>

dismissNotification(id) ==
    /\ notificationState' =
           [notificationState EXCEPT
               !.notifications = dismiss(notificationState.notifications,
                                         timers.pending, id).notifications]
    /\ timers' = [timers EXCEPT
                     !.pending = dismiss(notificationState.notifications,
                                         timers.pending, id).pending]
    /\ lastNotification' = "dismissNotification"
    /\ UNCHANGED <<appState, generatorState, lastCall, calls, history>>

dismissAllNotifications ==
    /\ notificationState' =
           [notificationState EXCEPT
               !.notifications = dismissEach(notificationState.notifications,
                                             notificationState.notifications,
                                             timers.pending).notifications]
    /\ timers' = [timers EXCEPT
                     !.pending = dismissEach(notificationState.notifications,
                                             notificationState.notifications,
                                             timers.pending).pending]
    /\ lastNotification' = "dismissAllNotifications"
    /\ UNCHANGED <<appState, generatorState, lastCall, calls, history>>

setMaxNotifications(max) ==
    /\ notificationState' =
           [notificationState EXCEPT
               !.maxNotifications = IF max > 0 THEN max ELSE @]
    /\ lastNotification' = "setMaxNotifications"
    /\ UNCHANGED <<appState, generatorState, lastCall, calls, history, timers>>

\* the auto-dismiss timeout t expires: its callback dismisses its notification
timeout(t) ==
    /\ notificationState' =
           [notificationState EXCEPT
               !.notifications = dismiss(notificationState.notifications,
                                         timers.pending \ {t}, t.id).notifications]
    /\ timers' = [timers EXCEPT
                     !.pending = dismiss(notificationState.notifications,
                                         timers.pending \ {t}, t.id).pending]
    /\ lastNotification' = "timeout"
    /\ UNCHANGED <<appState, generatorState, lastCall, calls, history>>

ShowNotification == \E id \in NotificationIds : showNotification(id)

DismissNotification == \E id \in NotificationIds : dismissNotification(id)

SetMaxNotifications == \E max \in MaxChoices : setMaxNotifications(max)

Timeout == \E t \in timers.pending : timeout(t)

NextNotify ==
    \/ ShowNotification
    \/ DismissNotification
    \/ dismissAllNotifications
    \/ SetMaxNotifications
    \/ Timeout

SpecNotify == Init /\ [][NextNotify]_vars

(***************************************************************************)
(* Properties.                                                             *)
(***************************************************************************)
\* the scalars at the leaves of a document, at any depth
RECURSIVE Leaves(_)
Leaves(v) ==
    IF v.t \in {"obj", "arr"}
    THEN UNION {Leaves(v.c[i].v) : i \in 1..Len(v.c)}
    ELSE {v}

\* the backend's literal of a value
valueToString(dbType, value) ==
    CASE dbType = "mongodb" -> mongoValueToString(value)
      [] dbType = "firebase" -> firebaseValueToString(value)
      [] dbType = "dynamodb" -> dynamoValueToString(value)
      [] dbType = "couchdb" -> couchValueToString(value)

\* a call of generateNoSQL for one of the four backends has been made
Called(structure) ==
    /\ lastCall.outcome # "none"
    /\ lastCall.dbType \in DbTypes
    /\ lastCall.structure = structure

\* C1: under the Nested structure, for every backend and every object root,
\* the call returns and every leaf scalar of the input, at any depth and
\* inside arrays too, appears in the output in its serialized form.
C1_NestedKeepsEveryLeaf ==
    (Called("nested") /\ lastCall.jsonData.t = "obj") =>
        /\ lastCall.outcome = "returned"
        /\ \A leaf \in Leaves(lastCall.jsonData) :
              includes(lastCall.data, valueToString(lastCall.dbType, leaf))

\* a nested generation for CouchDB from a root with leaves three levels
\* deep and inside an array of an array
C1_Witness ==
    /\ Called("nested")
    /\ lastCall.dbType = "couchdb"
    /\ lastCall.jsonData = Deep
    /\ lastCall.outcome = "returned"
    /\ Leaves(Deep) = {Num(7), Str(<<"x">>), Num(8), Bool(FALSE), Null}

\* C2: a generation call never mutates its input: when the call is over,
\* whatever the backend, the structure and the options, the caller's
\* document is the document that was passed.
C2_InputNeverMutated ==
    lastCall.outcome # "none" => appState.jsonData = lastCall.jsonData

\* C3: generating from a root that is neither an object nor an array (a
\* string, a number) fails for every backend: the call throws, and no code
\* is returned.
C3_ScalarRootFails ==
    (lastCall.outcome # "none" /\ lastCall.dbType \in DbTypes
        /\ lastCall.jsonData.t \in {"str", "num", "bool"}) =>
            /\ lastCall.outcome = "threw"
            /\ lastCall.data = <<>>

\* the fields [k, v] of the objects of a document, at any depth, whose
\* value is a scalar
RECURSIVE ScalarFields(_)
ScalarFields(v) ==
    IF v.t = "obj"
    THEN {v.c[i] : i \in {j \in 1..Len(v.c) : v.c[j].v.t \notin {"obj", "arr"}}}
         \cup UNION {ScalarFields(v.c[i].v) : i \in 1..Len(v.c)}
    ELSE IF v.t = "arr"
    THEN UNION {ScalarFields(v.c[i].v) : i \in 1..Len(v.c)}
    ELSE {}

\* the field key: value is written somewhere in the text
Emitted(text, dbType, field) ==
    includes(text, field.k \o <<": ">> \o valueToString(dbType, field.v))

\* C4: under the References structure, for every backend, every field of
\* the input, at any depth, is emitted, in its parent document or in an
\* extracted collection: none is dropped.
C4_ReferencesDropNoField ==
    (Called("references") /\ lastCall.jsonData.t \in {"obj", "arr"}) =>
        /\ lastCall.outcome = "returned"
        /\ \A field \in ScalarFields(lastCall.jsonData) :
              Emitted(lastCall.data, lastCall.dbType, field)

\* the collections (entities, document types) the References emitter of
\* the backend builds from a root
referencedCollections(dbType, jsonData) ==
    CASE dbType = "mongodb" -> mongoCollections(jsonData, mongoCollectionName(jsonData))
      [] dbType = "firebase" ->
            firebaseCollections(jsonData, firebaseCollectionName(jsonData))
      [] dbType = "dynamodb" -> dynamoEntities(jsonData)
      [] dbType = "couchdb" -> couchDocTypes(jsonData)

\* value is an element of one of the collections
Collected(collections, value) ==
    \E c \in 1..Len(collections) :
        \E i \in 1..Len(collections[c].v) : collections[c].v[i] = value

\* the values a field contributes to a collection: the object itself, or
\* the elements of the array
Extracted(value) == IF isArray(value) THEN {value.c[i].v : i \in 1..Len(value.c)} ELSE {value}

\* the name and the opening of the reference field written for key
referenceField(dbType, key) ==
    CASE dbType = "mongodb" -> key \o <<"Ref: ObjectId">>
      [] dbType = "firebase" -> key \o <<"Ref: doc">>
      [] dbType = "dynamodb" -> key \o <<"Id: ">>
      [] dbType = "couchdb" -> key \o <<"Id: ">>

\* the documents of a root: its elements, or the root itself
RootDocuments(jsonData) ==
    IF isArray(jsonData) THEN {jsonData.c[i].v : i \in 1..Len(jsonData.c)} ELSE {jsonData}

\* C5: under the References structure, every field of a document whose
\* value is a non-empty object, or an array whose first element is an
\* object, is not serialized inline in the parent, is replaced there by a
\* reference field, and its value(s) are elements of a collection.
C5_ReferencesReplaceEveryNestedField ==
    (Called("references") /\ lastCall.outcome = "returned") =>
        \A doc \in RootDocuments(lastCall.jsonData) :
            \A i \in 1..Len(entries(doc)) :
                LET field == entries(doc)[i] IN
                (isNonEmptyObject(field.v) \/ isArrayOfObjects(field.v)) =>
                    /\ ~Emitted(lastCall.data, lastCall.dbType, field)
                    /\ includes(lastCall.data, referenceField(lastCall.dbType, field.k))
                    /\ \A value \in Extracted(field.v) :
                          Collected(referencedCollections(lastCall.dbType, lastCall.jsonData),
                                    value)

\* C6: extraction recurses into the extracted collections: for every
\* element of every collection, each field whose value is a non-empty
\* object or an array of objects has its value(s) in some collection.
C6_ExtractionRecurses ==
    (Called("references") /\ lastCall.outcome = "returned") =>
        LET collections == referencedCollections(lastCall.dbType, lastCall.jsonData) IN
        \A c \in 1..Len(collections) :
            \A i \in 1..Len(collections[c].v) :
                \A j \in 1..Len(entries(collections[c].v[i])) :
                    LET value == entries(collections[c].v[i])[j].v IN
                    (isNonEmptyObject(value) \/ isArrayOfObjects(value)) =>
                        \A x \in Extracted(value) : Collected(collections, x)

\* occurrences of a token in a text
count(text, token) == Cardinality({i \in 1..Len(text) : text[i] = token})

\* as many closing as opening braces, brackets and parentheses
balanced(text) ==
    /\ count(text, "{") = count(text, "}")
    /\ count(text, "[") = count(text, "]")
    /\ count(text, "(") = count(text, ")")

\* C7: generation from an empty root, {} or [], does not throw under any
\* of the four structures for any of the four backends; the output has
\* balanced braces and brackets and no data field (no key: value).
C7_EmptyRootNeverThrows ==
    (lastCall.outcome # "none" /\ lastCall.dbType \in DbTypes
        /\ lastCall.structure \in Structures
        /\ lastCall.jsonData \in {EmptyObject, EmptyArray}) =>
            /\ lastCall.outcome = "returned"
            /\ balanced(lastCall.data)
            /\ count(lastCall.data, ": ") = 0

\* the calls the DynamoDB emitters write
BatchCall == "  const command = new BatchWriteCommand"

PutCall == "      new PutCommand"

PutRequest == "    PutRequest: "

\* a call for DynamoDB returned, from an array root
DynamoCalled(structure) ==
    /\ lastCall.outcome = "returned"
    /\ lastCall.dbType = "dynamodb"
    /\ lastCall.structure = structure
    /\ isArray(lastCall.jsonData)

\* the number of documents of the root passed
Passed == Len(lastCall.jsonData.c)

\* C8: DynamoDB, Nested, n documents: for n <= 25 the output is one
\* BatchWriteCommand carrying n put requests and no PutCommand; for
\* n >= 26 it is n PutCommands and no BatchWriteCommand; never both, and
\* never more than 25 put requests in the batch.
C8_NestedBatchUpTo25 ==
    DynamoCalled("nested") =>
        /\ Passed <= 25 => /\ count(lastCall.data, BatchCall) = 1
                           /\ count(lastCall.data, PutRequest) = Passed
                           /\ count(lastCall.data, PutCall) = 0
        /\ Passed >= 26 => /\ count(lastCall.data, BatchCall) = 0
                           /\ count(lastCall.data, PutRequest) = 0
                           /\ count(lastCall.data, PutCall) = Passed
        /\ count(lastCall.data, PutRequest) <= 25

\* a nested generation for 26 documents, written as 26 PutCommands
C8_Witness ==
    /\ DynamoCalled("nested")
    /\ Passed = 26
    /\ count(lastCall.data, PutCall) = 26

indexFields(dbType, jsonData) ==
    CASE dbType = "mongodb" -> mongoIndexFields(jsonData)
      [] dbType = "firebase" -> firebaseIndexFields(jsonData)
      [] dbType = "dynamodb" -> dynamoIndexFields(jsonData)
      [] dbType = "couchdb" -> couchIndexFields(jsonData)

\* the notice every advisor writes when it has no candidate
NoCandidates ==
    {"// No obvious index candidates found in this data structure",
     "No obvious index candidates found in this data structure"}

\* C10: the index advisor samples the first element of an array root and
\* the root itself otherwise: for the sample {user_id, email, created_at,
\* notes}, as the root object or as the first element of the root array,
\* the candidates are [user_id, email, created_at] for every backend, and
\* the output says so (it does not report that there is no candidate).
C10_AdvisorSamplesRootOrFirstElement ==
    (lastCall.outcome # "none" /\ lastCall.dbType \in DbTypes
        /\ lastCall.options.addIndexes /\ lastCall.jsonData \in {Sample, Samples}) =>
            /\ lastCall.outcome = "returned"
            /\ indexFields(lastCall.dbType, lastCall.jsonData)
                   = SubSeq(keys(Sample), 1, 3)
            /\ \A notice \in NoCandidates : count(lastCall.data, notice) = 0

\* a list in which no entry occurs twice
distinct(fields) ==
    \A i, j \in 1..Len(fields) : fields[i] = fields[j] => i = j

\* the advisor was run: a call for a known backend with addIndexes returned
Advised ==
    /\ lastCall.outcome = "returned"
    /\ lastCall.dbType \in DbTypes
    /\ lastCall.options.addIndexes

\* C11: the candidate list of the index advisor is de-duplicated: whatever
\* the sample document, no field name occurs twice in the list, a field that
\* matches several heuristics at once included.
C11_CandidatesAreDistinct ==
    Advised => distinct(indexFields(lastCall.dbType, lastCall.jsonData))

\* what a compound index over two fields looks like in each backend's
\* index block: one createIndex over both (MongoDB, CouchDB), the two fields
\* under the compound heading (Firebase), one key schema that holds both
\* fields (DynamoDB)
compoundSuggestion(dbType, first, second) ==
    CASE dbType = "mongodb" ->
            <<"// Compound Index Suggestion", "\n", "db.">>
      [] dbType = "firebase" ->
            <<"  // Compound index suggestion:", "\n", "  Field: ">> \o first
            \o <<", Order: ASCENDING", "\n", "  Field: ">> \o second
            \o <<", Order: ASCENDING", "\n">>
      [] dbType = "dynamodb" ->
            <<"            - AttributeName: ">> \o first
            \o <<"\n", "              KeyType: HASH", "\n",
                 "            - AttributeName: ">> \o second
      [] dbType = "couchdb" ->
            <<"  // Create compound index", "\n", "  try ", "{", "\n",
              "    await db.createIndex", "(", "{", "\n", "      index: ", "{",
              " fields: ", "[", "'">> \o first \o <<"'", ", ", "'">> \o second
            \o <<"'", "]">>

\* the two fields of MongoDB's compound createIndex, in order
mongoCompoundKeys(first, second) ==
    <<".createIndex", "(", "{", " ">> \o first \o <<": 1", ", ">> \o second \o <<": 1">>

\* C12: whenever the advisor finds more than one candidate, the index block
\* of every backend also holds a compound-index suggestion over the first
\* two candidates, in candidate order.
C12_CompoundOverFirstTwo ==
    LET fields == indexFields(lastCall.dbType, lastCall.jsonData) IN
    (Advised /\ Len(fields) > 1) =>
        /\ includes(lastCall.data,
                    compoundSuggestion(lastCall.dbType, fields[1], fields[2]))
        /\ lastCall.dbType = "mongodb" =>
               includes(lastCall.data, mongoCompoundKeys(fields[1], fields[2]))

\* the tokens that open an index definition in the four index blocks: a
\* createIndex call (MongoDB, CouchDB: type, single-field and compound
\* index alike), an indexed field (Firebase), a secondary index (DynamoDB)
IndexDefinitions ==
    {".createIndex", "    await db.createIndex", "  Field: ",
     "      GlobalSecondaryIndexes:", "        - IndexName: "}

\* C13: with addIndexes set and no index candidate, the output of every
\* backend holds the notice that no candidate was found, and no index
\* definition at all: no single-field, no compound and no type index.
C13_NoCandidatesNoticeOnly ==
    (Advised /\ indexFields(lastCall.dbType, lastCall.jsonData) = <<>>) =>
        /\ \E notice \in NoCandidates : count(lastCall.data, notice) = 1
        /\ \A definition \in IndexDefinitions : count(lastCall.data, definition) = 0

\* the advisor sampled a first element that has no candidate field
C13_Witness ==
    /\ Advised
    /\ lastCall.jsonData = ItemsRoot
    /\ indexFields(lastCall.dbType, lastCall.jsonData) = <<>>
    /\ \E notice \in NoCandidates : count(lastCall.data, notice) = 1

\* the last call came to r: same outcome, same error, same output
SameResult(r) ==
    /\ lastCall.outcome = r.outcome
    /\ lastCall.message = r.message
    /\ lastCall.data = r.data

\* the last call reached a generator with a structure it does not know
UnknownStructure ==
    /\ lastCall.outcome # "none"
    /\ lastCall.dbType \in DbTypes
    /\ lastCall.structure \notin Structures \cup {""}

\* the function main() invokes in CouchDB's output for the nested structure
AddNestedDocuments == "  await addNestedDocuments"

\* C14: for each of the four emitters a structure other than nested, flat,
\* references and arrays is not an error: the call comes to exactly what it
\* comes to for nested on the same document and options, with the same
\* clock and ids, the function CouchDB's main() invokes included.
C14_UnknownStructureIsNested ==
    UnknownStructure =>
        /\ SameResult(generateNoSQL(lastCall.jsonData, lastCall.dbType, "nested",
                                    lastCall.options, Epoch, lastCall.tick, lastCall.cycle))
        /\ (lastCall.dbType = "couchdb" /\ lastCall.outcome = "returned") =>
               count(lastCall.data, AddNestedDocuments) = 1

\* CouchDB returned code for a structure it does not know, timestamps on a
\* moving clock included
C14_Witness ==
    /\ UnknownStructure
    /\ lastCall.dbType = "couchdb"
    /\ lastCall.jsonData = Deep
    /\ lastCall.options.addTimestamps /\ lastCall.tick = 1
    /\ lastCall.outcome = "returned"
    /\ count(lastCall.data, AddNestedDocuments) = 1

\* C15: a backend that is not one of the known ones is not an error: the
\* call comes to what it comes to for MongoDB on the same document,
\* structure and options.
C15_UnknownBackendIsMongo ==
    (lastCall.outcome # "none" /\ lastCall.dbType \notin DbTypes \cup {""}) =>
        SameResult(generateNoSQL(lastCall.jsonData, "mongodb", lastCall.structure,
                                 lastCall.options, Epoch, lastCall.tick, lastCall.cycle))

\* two calls were made with the same backend, structure and options under
\* the same clock
SameArguments(a, b) ==
    /\ a.dbType = b.dbType
    /\ a.structure = b.structure
    /\ a.options = b.options
    /\ a.tick = b.tick
    /\ a.cycle = b.cycle

\* C16: generation is deterministic and keeps no hidden state: a call made
\* for the document the application holds, with the backend, structure and
\* options of an earlier call for that document and under the same clock
\* and ids, returns what the earlier call returned, whatever calls,
\* successful or failing, were made before or between the two.
C16_RepeatedCallSameOutput ==
    \A i \in 1..Len(history) :
        SameArguments(history[i], lastCall) =>
            /\ lastCall.outcome = history[i].outcome
            /\ lastCall.data = history[i].data

\* the same, for calls whose document has the same value on entry
EqualDocumentSameOutput ==
    \A i \in 1..Len(history) :
        (SameArguments(history[i], lastCall) /\ history[i].jsonData = lastCall.jsonData) =>
            /\ lastCall.outcome = history[i].outcome
            /\ lastCall.data = history[i].data

\* indentation
Blank ==
    {" ", "  ", "    ", "      ", "        ", "          ", "            ",
     "              ", "                "}

\* the data fields of an output, in the order written: the lines that hold
\* a key, ": " and a value, without their indentation
DataFields(text) ==
    LET seps == {i \in 1..Len(text) : text[i] = ": "}
        breaks == {i \in 0..(Len(text) + 1) : i = 0 \/ i = Len(text) + 1 \/ text[i] = "\n"}
        before(p) == CHOOSE b \in breaks : b < p /\ \A c \in breaks : c < p => c <= b
        after(p) == CHOOSE b \in breaks : b > p /\ \A c \in breaks : c > p => b <= c
        starts == {before(p) : p \in seps}
        nth(k) == CHOOSE x \in starts : Cardinality({y \in starts : y < x}) = k - 1
        key(x) == CHOOSE i \in (x + 1)..after(x + 1) :
                      /\ text[i] \notin Blank
                      /\ \A j \in (x + 1)..(i - 1) : text[j] \in Blank
    IN [k \in 1..Cardinality(starts) |-> SubSeq(text, key(nth(k)), after(nth(k) + 1) - 1)]

\* no field of the document, or of an element of the root array, is an object
AlreadyFlat(jsonData) ==
    \A document \in RootDocuments(jsonData) :
        \A e \in 1..Len(entries(document)) : ~isPlainObject(entries(document)[e].v)

\* the call came to r, and wrote the data fields r has
SameDataFields(r) ==
    /\ lastCall.outcome = r.outcome
    /\ DataFields(lastCall.data) = DataFields(r.data)

\* C17: for every backend the Flat structure, applied to a document none of
\* whose fields is an object, writes the data fields the Nested structure
\* writes for it: same keys, same values, same order; the injected id and
\* timestamp fields aside.
C17_FlatOfFlatIsNested ==
    (Called("flat") /\ AlreadyFlat(lastCall.jsonData)) =>
        SameDataFields(generateNoSQL(lastCall.jsonData, lastCall.dbType, "nested",
                                     lastCall.options, Epoch, lastCall.tick, lastCall.cycle))

\* Flat wrote the two fields of the first and the one field of the second
\* element of [{"id": 1, "name": "a\"b"}, {"id": 2}]
C17_Witness ==
    /\ Called("flat")
    /\ lastCall.jsonData = Pair
    /\ lastCall.outcome = "returned"
    /\ Len(DataFields(lastCall.data)) = 3

\* the separator of the key path in the backend's flattened keys
Separator(dbType) == IF dbType = "mongodb" THEN <<".">> ELSE <<"_">>

\* the fields of a document with every nested object, at any depth, merged
\* into its parent under the joined key path, arrays left as they are: one
\* line, key path: value, per field
RECURSIVE FlatFields(_, _, _)
FlatFields(dbType, v, path) ==
    concat([i \in 1..Len(entries(v)) |->
        IF isPlainObject(entries(v)[i].v)
        THEN FlatFields(dbType, entries(v)[i].v,
                        path \o entries(v)[i].k \o Separator(dbType))
        ELSE << path \o entries(v)[i].k \o <<": ">>
                \o valueToString(dbType, entries(v)[i].v) >>])

\* the documents of a root, in order: its elements, or the root itself
RootSequence(jsonData) ==
    IF isArray(jsonData) THEN Elems(jsonData) ELSE <<jsonData>>

\* a line without the comma that ends it
uncomma(line) ==
    IF Len(line) > 0 /\ line[Len(line)] = "," THEN SubSeq(line, 1, Len(line) - 1) ELSE line

\* the root is an object or a non-empty array of objects
ObjectRoot(jsonData) ==
    /\ Len(RootSequence(jsonData)) > 0
    /\ \A i \in 1..Len(RootSequence(jsonData)) : isPlainObject(RootSequence(jsonData)[i])

\* C18: under the Flat structure no emitted document has an object-valued
\* field: every nested object, at any depth, is merged into its parent under
\* the key path joined by the backend's separator ('.' for MongoDB, '_' for
\* Firebase, DynamoDB and CouchDB); arrays are written as they are.  For
\* {name: "Ada", address: {city: "London"}} MongoDB writes address.city:
\* "London" and no address block.
C18_FlatMergesNestedObjects ==
    (Called("flat") /\ ObjectRoot(lastCall.jsonData)) =>
        /\ lastCall.outcome = "returned"
        /\ [k \in 1..Len(DataFields(lastCall.data)) |-> uncomma(DataFields(lastCall.data)[k])]
               = concat([i \in 1..Len(RootSequence(lastCall.jsonData)) |->
                    FlatFields(lastCall.dbType, RootSequence(lastCall.jsonData)[i], <<>>)])

\* MongoDB wrote address.city: "London" for Ada
C18_Witness ==
    /\ Called("flat")
    /\ lastCall.outcome = "returned"
    /\ lastCall.dbType = "mongodb" /\ lastCall.jsonData = Ada
    /\ includes(lastCall.data,
          <<"a","d","d","r","e","s","s",".","c","i","t","y",": ","\"",
            "L","o","n","d","o","n","\"">>)

\* the collection of a field key by the naming rule: the key kept when it
\* ends in s and with s appended otherwise (MongoDB, Firebase); the singular
\* of the key, capitalized (DynamoDB, CouchDB)
NamedCollection(dbType, key) ==
    IF dbType \in {"mongodb", "firebase"}
    THEN IF endsWith(key, <<"s">>) THEN key ELSE key \o <<"s">>
    ELSE capitalize(IF endsWith(key, <<"s">>) THEN dropLast(key) ELSE key)

\* value is an element of the collection of that name
CollectedUnder(collections, name, value) ==
    /\ has(collections, name)
    /\ \E i \in 1..Len(get(collections, name)) : get(collections, name)[i] = value

\* C19: under References the collection of a field key is the key itself
\* when it ends in s and the key with s appended otherwise for MongoDB and
\* Firebase, and the singular, capitalized key for DynamoDB and CouchDB,
\* whether the field holds one object or an array of objects.
C19_CollectionNaming ==
    (Called("references") /\ lastCall.outcome = "returned"
        /\ ObjectRoot(lastCall.jsonData)) =>
        \A doc \in RootDocuments(lastCall.jsonData) :
            \A i \in 1..Len(entries(doc)) :
                (isNonEmptyObject(entries(doc)[i].v) \/ isArrayOfObjects(entries(doc)[i].v)) =>
                    \A value \in Extracted(entries(doc)[i].v) :
                        CollectedUnder(
                            referencedCollections(lastCall.dbType, lastCall.jsonData),
                            NamedCollection(lastCall.dbType, entries(doc)[i].k), value)

\* the calls that write to the database, in the code of the four backends
WriteCalls ==
    {".insertOne", ".insertMany", "  await setDoc", "  await addDoc", " = await addDoc",
     PutCall, BatchCall, "    const response = await db.insert",
     "    const response = await db.bulk"}

\* the items field of the container document
ItemsField(dbType) ==
    CASE dbType = "mongodb" -> "  items: "
      [] dbType = "dynamodb" -> "          items: "
      [] OTHER -> "    items: "

\* the indentation of an entry of the items field
ItemIndent(dbType) ==
    CASE dbType = "mongodb" -> "    "
      [] dbType = "dynamodb" -> "            "
      [] OTHER -> "      "

\* where the entries of the items field open
ItemOpenings(text, dbType) ==
    {i \in 1..(Len(text) - 2) :
        text[i] = ItemIndent(dbType) /\ text[i + 1] = "{" /\ text[i + 2] = "\n"}

\* the fields of a document, one line key: value each, nothing merged
OwnFields(dbType, v) ==
    [i \in 1..Len(entries(v)) |->
        entries(v)[i].k \o <<": ">> \o valueToString(dbType, entries(v)[i].v)]

\* the k-th id the backend draws in a call
DrawnId(dbType, k) == generateId(dbType # "mongodb", k)

\* C20: under the arrays structure every backend emits one container
\* document, written by exactly one call, whose items field holds one entry
\* per element of the root, in order, and a single entry for a root that is
\* not an array; with addIds the id of the container and the id of each
\* entry are separate draws.
C20_OneContainerOneEntryPerElement ==
    Called("arrays") =>
        /\ lastCall.outcome = "returned"
        /\ Cardinality({i \in 1..Len(lastCall.data) : lastCall.data[i] \in WriteCalls}) = 1
        /\ count(lastCall.data, ItemsField(lastCall.dbType)) = 1
        /\ Cardinality(ItemOpenings(lastCall.data, lastCall.dbType))
               = Len(RootSequence(lastCall.jsonData))
        /\ \A i \in ItemOpenings(lastCall.data, lastCall.dbType) :
               \E j \in 1..i : lastCall.data[j] = ItemsField(lastCall.dbType)
        /\ [k \in 1..Len(DataFields(lastCall.data)) |-> uncomma(DataFields(lastCall.data)[k])]
               = concat([i \in 1..Len(RootSequence(lastCall.jsonData)) |->
                    OwnFields(lastCall.dbType, RootSequence(lastCall.jsonData)[i])])
        /\ lastCall.options.addIds =>
               /\ \A k \in 1..(Len(RootSequence(lastCall.jsonData)) + 1) :
                      count(lastCall.data, DrawnId(lastCall.dbType, k)) = 1
               /\ count(lastCall.data,
                        DrawnId(lastCall.dbType, Len(RootSequence(lastCall.jsonData)) + 2)) = 0

\* a container with two entries and three ids was written for
\* [{"id": 1, "name": "a\"b"}, {"id": 2}]
C20_Witness ==
    /\ Called("arrays")
    /\ lastCall.outcome = "returned"
    /\ lastCall.jsonData = Pair
    /\ lastCall.options.addIds
    /\ Cardinality(ItemOpenings(lastCall.data, lastCall.dbType)) = 2
    /\ count(lastCall.data, DrawnId(lastCall.dbType, 3)) = 1

\* where the Nested output of a backend names its target: the collection
\* of insertMany (MongoDB), of collection(db, ...) (Firebase), the table of
\* RequestItems (DynamoDB), the database of nano.use (CouchDB)
TargetNamed(dbType, name) ==
    CASE dbType = "mongodb" -> <<"db.">> \o name \o <<".insertMany">>
      [] dbType = "firebase" ->
            <<"  const collectionRef = collection", "(", "db, ", "\"">> \o name \o <<"\"">>
      [] dbType = "dynamodb" -> <<"      ", "\"">> \o name \o <<"\"", ": items">>
      [] dbType = "couchdb" -> <<"const db = nano.use", "(", "\"">> \o name \o <<"\"">>

\* C21: every emitter resolves its target name in the order explicit
\* option, first key of a root object, generic fallback: with no explicit
\* name given, the target of a root object that has a key is its first key,
\* never the fallback.
C21_FirstKeyBeforeFallback ==
    (Called("nested") /\ lastCall.outcome = "returned"
        /\ isPlainObject(lastCall.jsonData) /\ Len(keys(lastCall.jsonData)) > 0
        /\ ~truthy(lastCall.options.dbName)) =>
            includes(lastCall.data,
                     TargetNamed(lastCall.dbType, keys(lastCall.jsonData)[1]))

\* the tokens that open the value of a reference field
ReferenceOpeners == {"Ref: ObjectId", "Ref: doc", "Id: "}

\* where the line of position i starts
lineStart(text, i) ==
    LET breaks == {k \in 1..(i - 1) : text[k] = "\n"}
    IN IF breaks = {} THEN 1 ELSE (CHOOSE k \in breaks : \A b \in breaks : b <= k) + 1

\* the positions where text draws the identifier of a document: a call of
\* generateId on a line that is no reference field
DocumentIds(text) ==
    {i \in 1..Len(text) :
        /\ text[i] \in {NewId, NewOid}
        /\ \A k \in lineStart(text, i)..i : text[k] \notin ReferenceOpeners}

\* no two of the positions ids hold the same token of data
distinctAt(data, ids) ==
    \A i \in ids, j \in ids : i # j => data[i] # data[j]

\* C22: with addIds set, the identifiers synthesized within one output are
\* never reused across documents (top-level documents, documents of extracted
\* collections, the array container and its items), whatever the backend and
\* the structure.
C22_IdsNeverReused ==
    (lastCall.outcome = "returned" /\ lastCall.dbType \in DbTypes
        /\ lastCall.options.addIds) =>
            distinctAt(lastCall.data,
                       DocumentIds(generate(lastCall.jsonData, lastCall.dbType,
                                            lastCall.structure, lastCall.options)))

\* as C22, for an ID source that does not repeat itself within the call
IdsDistinctWhenSourceIs ==
    (lastCall.cycle = NoRepeat) => C22_IdsNeverReused

\* the openers of the two timestamp fields the emitters inject, pairwise
TimestampOpeners ==
    {<<"  createdAt: ISODate", "  updatedAt: ISODate">>,
     <<"    createdAt: ISODate", "    updatedAt: ISODate">>,
     <<"    createdAt: serverTimestamp", "    updatedAt: serverTimestamp">>,
     <<"    createdAt: ", "    updatedAt: ">>,
     <<"      createdAt: ", "      updatedAt: ">>,
     <<"        createdAt: ", "        updatedAt: ">>,
     <<"          createdAt: ", "          updatedAt: ">>}

\* where the line of position i ends
lineEnd(text, i) ==
    LET breaks == {k \in i..Len(text) : text[k] = "\n"}
    IN IF breaks = {} THEN Len(text) ELSE CHOOSE k \in breaks : \A b \in breaks : k <= b

\* the line that opens at i is createdAt, the next one is updatedAt with the
\* same value
SameInstant(data, i, pair) ==
    LET next == lineEnd(data, i) + 1
    IN /\ next <= Len(data)
       /\ data[next] = pair[2]
       /\ SubSeq(data, i + 1, next - 1) = SubSeq(data, next + 1, lineEnd(data, next))

\* every createdAt is followed by its updatedAt, and there is no updatedAt else
Stamps(data) ==
    /\ \A pair \in TimestampOpeners : \A i \in 1..Len(data) :
            data[i] = pair[1] => SameInstant(data, i, pair)
    /\ Cardinality({i \in 1..Len(data) : \E pair \in TimestampOpeners : data[i] = pair[1]})
            = Cardinality({i \in 1..Len(data) : \E pair \in TimestampOpeners : data[i] = pair[2]})

\* C23: with addTimestamps set, every document that receives timestamps gets
\* exactly the two fields createdAt and updatedAt, and the two hold the same
\* instant, whatever the backend and the structure, also when the clock
\* advances while the output is generated.
C23_CreatedAtEqualsUpdatedAt ==
    (lastCall.outcome = "returned" /\ lastCall.dbType \in DbTypes
        /\ lastCall.options.addTimestamps) => Stamps(lastCall.data)

\* as C23, outside DynamoDB or with a clock that stands still
StampsOutsideDynamoDB ==
    (lastCall.dbType # "dynamodb" \/ lastCall.tick = 0) => C23_CreatedAtEqualsUpdatedAt

\* the date constructors of the backends' literals
DateConstructors == {"ISODate", "new Date"}

\* the Date objects of the document of the last call, at any depth
Dates == {v \in Leaves(lastCall.jsonData) : v.t = "date"}

\* C24: every backend's value serializer renders a date with the backend's
\* date constructor literal, never as a bare quoted string, at any depth (a
\* top-level field, an element of an array, a field of a nested object).
C24_DatesAsConstructorLiterals ==
    (lastCall.outcome # "none" /\ lastCall.dbType \in DbTypes) =>
        \A v \in Dates :
            /\ valueToString(lastCall.dbType, v)[1] \in DateConstructors
            /\ valueToString(lastCall.dbType, v)[1] # "\""
            /\ Called("nested") =>
                   includes(lastCall.data, valueToString(lastCall.dbType, v))

\* as C24, for the two backends whose serializer has a date constructor
DatesOfMongoDBAndFirebase ==
    (lastCall.dbType \in {"mongodb", "firebase"}) => C24_DatesAsConstructorLiterals

\* the positions where text writes the identifier of a reference field
ReferenceIds(text) ==
    {i \in 1..Len(text) :
        /\ text[i] \in {NewId, NewOid, SameId}
        /\ \E k \in lineStart(text, i)..i : text[k] \in ReferenceOpeners}

\* every identifier of data at a position of refs is at a position of ids too
pointsAtDocument(data, refs, ids) ==
    \A r \in refs : \E d \in ids : data[r] = data[d]

\* C25: under References, the identifier of every reference field written
\* into a parent document is the identifier emitted for a document of the
\* output; no reference points at an identifier no emitted document has.
C25_ReferencesPointAtDocuments ==
    (Called("references") /\ lastCall.outcome = "returned") =>
        pointsAtDocument(lastCall.data,
                         ReferenceIds(generate(lastCall.jsonData, lastCall.dbType,
                                               lastCall.structure, lastCall.options)),
                         DocumentIds(generate(lastCall.jsonData, lastCall.dbType,
                                              lastCall.structure, lastCall.options)))

\* a References output of some backend wrote a reference field
ReferenceWritten(dbType) ==
    /\ Called("references") /\ lastCall.outcome = "returned" /\ lastCall.dbType = dbType
    /\ lastCall.options.addIds
    /\ ReferenceIds(generate(lastCall.jsonData, lastCall.dbType,
                             lastCall.structure, lastCall.options)) # {}

\* the tokens that open an injected primary-key field
IdOpeners ==
    {"  _id: ObjectId", "    _id: ObjectId", "      _id: ObjectId", "    _id: ", "      _id: ",
     "        id: ", "          id: ", "              id: ", "          PK: ", "          SK: "}

\* text consults the ID source
consultsIdSource(text) ==
    \E i \in 1..Len(text) : text[i] \in {NewId, NewOid}

\* data holds an injected primary-key field or reference field
injectsIds(data) ==
    \E i \in 1..Len(data) : data[i] \in IdOpeners \cup ReferenceOpeners

\* C26: when addIds is false or absent no emitter synthesizes an identifier:
\* no emitted document holds an injected primary-key or reference field (_id,
\* id, PK, SK, <key>Ref, <key>Id) and the ID source is never consulted,
\* whatever the backend and the structure.
C26_NoIdsUnlessAsked ==
    (lastCall.outcome = "returned" /\ lastCall.dbType \in DbTypes
        /\ ~lastCall.options.addIds) =>
            /\ ~injectsIds(lastCall.data)
            /\ ~consultsIdSource(generate(lastCall.jsonData, lastCall.dbType,
                                          lastCall.structure, lastCall.options))

\* as C26, for one backend and structure
NoIdsUnlessAskedIn(dbType, structure) ==
    (lastCall.dbType = dbType /\ lastCall.structure = structure) => C26_NoIdsUnlessAsked

\* the backend's flattenObject
flattenObject(dbType, obj) ==
    CASE dbType = "mongodb" -> mongoFlattenObject(obj, <<>>)
      [] dbType = "firebase" -> firebaseFlattenObject(obj, <<>>)
      [] dbType = "dynamodb" -> dynamoFlattenObject(obj, <<>>)
      [] dbType = "couchdb" -> couchFlattenObject(obj, <<>>)

\* C27: flattenObject is injective on key paths: for every backend and every
\* object, distinct leaf paths get distinct flattened keys, so the flattened
\* document has one field per leaf and no leaf value is overwritten by
\* another, also when a top-level key holds the separator next to a nested
\* object whose joined key is the same.
C27_FlattenKeepsEveryLeaf ==
    (Called("flat") /\ isPlainObject(lastCall.jsonData)) =>
        /\ Len(flattenObject(lastCall.dbType, lastCall.jsonData))
               = Len(FlatFields(lastCall.dbType, lastCall.jsonData, <<>>))
        /\ lastCall.outcome = "returned"
        /\ Len(DataFields(lastCall.data))
               = Len(FlatFields(lastCall.dbType, lastCall.jsonData, <<>>))

\* as C27, for the documents whose leaf paths join to distinct keys
FlattenKeepsEveryLeafOfAda ==
    (lastCall.jsonData = Ada) => C27_FlattenKeepsEveryLeaf

\* the array variables data declares: const <name> = [ for a name that ends
\* in Docs
declaredDocs(data) ==
    {SubSeq(data, lineStart(data, j) + 1, j - 1) \o <<"Docs">> :
        j \in {k \in 1..Len(data) : data[k] = "Docs = "}}

\* the names data spreads into allDocs, one per line: ...<name>
spreadDocs(data) ==
    {IF data[lineEnd(data, i) - 1] = "Docs,"
     THEN SubSeq(data, i + 1, lineEnd(data, i) - 2) \o <<"Docs">>
     ELSE SubSeq(data, i + 1, lineEnd(data, i) - 1) :
        i \in {k \in 1..Len(data) : data[k] = "    ..."}}

\* C28: in the CouchDB References output the arrays spread into allDocs are
\* the arrays declared before: every spread name is a declared <type>Docs
\* variable and every declared <type>Docs variable is spread, for one
\* document type and for more.
C28_AllDocsSpreadsDeclared ==
    (Called("references") /\ lastCall.dbType = "couchdb"
        /\ lastCall.outcome = "returned") =>
            spreadDocs(lastCall.data) = declaredDocs(lastCall.data)

\* the spread names but the last are declared, and the last one is the name
\* of a document type without Docs
AllDocsButLast ==
    (Called("references") /\ lastCall.dbType = "couchdb"
        /\ lastCall.outcome = "returned") =>
            /\ Cardinality(spreadDocs(lastCall.data) \ declaredDocs(lastCall.data)) = 1
            /\ \A name \in spreadDocs(lastCall.data) \ declaredDocs(lastCall.data) :
                    name \o <<"Docs">> \in declaredDocs(lastCall.data)

\* the cached input and options are those of the last call, and the cached
\* output is what generateNoSQL returns for them for some backend and some
\* pace of the clock
CacheConsistent(output) ==
    /\ generatorState.lastOptions
           = <<[options |-> lastCall.options, structure |-> lastCall.structure]>>
    /\ \E dbType \in DbTypes, tick \in {0, 1} :
           generateNoSQL(lastCall.jsonData, dbType, lastCall.structure,
                         lastCall.options, Epoch, tick, lastCall.cycle)
               = Returned(output, generatorState.lastInput)

\* C29: the generator module's cached state stays consistent over any
\* sequence of generateNoSQL calls: whenever getCurrentNoSQLOutput() is not
\* null it is the output generated for the input and the options cached
\* (lastInput, getCurrentOptions()), also after a call that throws.
C29_CachedOutputMatchesCachedInput ==
    (lastCall.outcome # "none" /\ Len(generatorState.lastOutput) > 0) =>
        CacheConsistent(generatorState.lastOutput)

\* as C29, after a call that returned
CachedOutputAfterReturn ==
    (lastCall.outcome = "returned") => C29_CachedOutputMatchesCachedInput

\* C30: the notification list is bounded: after any sequence of
\* showNotification, dismissNotification, dismissAllNotifications and
\* setMaxNotifications calls and expiries of auto-dismiss timeouts, when a
\* showNotification call has returned the number of notifications tracked
\* is at most the current maxNotifications.
C30_ListWithinMaxAfterShow ==
    (lastNotification = "showNotification") =>
        Len(notificationState.notifications) <= notificationState.maxNotifications

\* the list never grows beyond the default limit while that is the limit
ListWithinDefaultMax ==
    (notificationState.maxNotifications = DefaultMaxNotifications) =>
        Len(notificationState.notifications) <= DefaultMaxNotifications
====
